---- MODULE Spec2Model ----
(***************************************************************************)
(* claude-remote: a server that bridges one supervised PTY process (the    *)
(* claude CLI) to remote socket observers.  The model covers server.js     *)
(* (scrollback buffer, PTY supervision, socket handlers, shutdown) and the *)
(* two library classes it drives, lib/parser.js and lib/notifier.js.       *)
(*                                                                         *)
(* Text is modelled as a sequence of one-character strings, so that        *)
(* String.length, slice, trim and the regular expressions of the parser    *)
(* are computed on characters and not assumed.                             *)
(***************************************************************************)
EXTENDS Integers, Sequences, FiniteSets, TLC

(***************************************************************************)
(* Bounds of the model (not program constants).                            *)
(***************************************************************************)
MaxLimit == 3        \* ScrollSpec draws SCROLLBACK_LIMIT from 0..MaxLimit
MaxEvents == 4       \* events of the environment in a run: chunks, exits of the
                     \* process, connects, disconnects, inputs, signals
MaxCalls == 4        \* calls of the Notifier's methods in a run of NotifierSpec

NULL == "null"
ESC == "ESC"
CR == "CR"
LF == "LF"
TAB == "TAB"

(***************************************************************************)
(* JavaScript string primitives.                                           *)
(***************************************************************************)
Min(a, b) == IF a < b THEN a ELSE b
Max(a, b) == IF a > b THEN a ELSE b

\* String.prototype.slice(start) with one argument: a negative start counts
\* from the end, and -0 is 0, so slice(-0) is the whole string.
Slice(s, start) ==
  LET from == IF start < 0 THEN Max(Len(s) + start, 0) ELSE Min(start, Len(s))
  IN  SubSeq(s, from + 1, Len(s))

IsSpace(c) == c \in {" ", CR, LF, TAB}
IsDigit(c) == c \in {"0", "1", "2", "3", "4", "5", "6", "7", "8", "9"}

UpperToLower ==
  [c \in {"A", "B", "C", "D", "E", "F", "G", "H", "I", "J", "K", "L", "M",
          "N", "O", "P", "Q", "R", "S", "T", "U", "V", "W", "X", "Y", "Z"} |->
     CASE c = "A" -> "a" [] c = "B" -> "b" [] c = "C" -> "c" [] c = "D" -> "d"
       [] c = "E" -> "e" [] c = "F" -> "f" [] c = "G" -> "g" [] c = "H" -> "h"
       [] c = "I" -> "i" [] c = "J" -> "j" [] c = "K" -> "k" [] c = "L" -> "l"
       [] c = "M" -> "m" [] c = "N" -> "n" [] c = "O" -> "o" [] c = "P" -> "p"
       [] c = "Q" -> "q" [] c = "R" -> "r" [] c = "S" -> "s" [] c = "T" -> "t"
       [] c = "U" -> "u" [] c = "V" -> "v" [] c = "W" -> "w" [] c = "X" -> "x"
       [] c = "Y" -> "y" [] c = "Z" -> "z"]

IsLetter(c) == c \in DOMAIN UpperToLower \/ c \in {UpperToLower[u] : u \in DOMAIN UpperToLower}

\* the /i flag: both sides are compared in lower case
Lower(s) == [i \in 1..Len(s) |-> IF s[i] \in DOMAIN UpperToLower THEN UpperToLower[s[i]] ELSE s[i]]

\* String.prototype.trim()
RECURSIVE TrimLeft(_)
TrimLeft(s) == IF s # <<>> /\ IsSpace(Head(s)) THEN TrimLeft(Tail(s)) ELSE s

RECURSIVE TrimRight(_)
TrimRight(s) ==
  IF s # <<>> /\ IsSpace(s[Len(s)]) THEN TrimRight(SubSeq(s, 1, Len(s) - 1)) ELSE s

Trim(s) == TrimRight(TrimLeft(s))

StartsWith(s, p) == Len(s) >= Len(p) /\ SubSeq(s, 1, Len(p)) = p
EndsWith(s, p) == Len(s) >= Len(p) /\ SubSeq(s, Len(s) - Len(p) + 1, Len(s)) = p
Contains(s, p) == \E i \in 0..(Len(s) - Len(p)) : SubSeq(s, i + 1, i + Len(p)) = p

\* String.prototype.split('\n')
RECURSIVE SplitLines(_)
SplitLines(s) ==
  IF \A i \in 1..Len(s) : s[i] # LF
    THEN <<s>>
    ELSE LET k == CHOOSE i \in 1..Len(s) : s[i] = LF /\ \A j \in 1..(i - 1) : s[j] # LF
         IN  <<SubSeq(s, 1, k - 1)>> \o SplitLines(SubSeq(s, k + 1, Len(s)))

(***************************************************************************)
(* lib/parser.js                                                           *)
(***************************************************************************)
\* length of the run of CSI parameter characters [0-9;] at the head of s
RECURSIVE ParamRun(_)
ParamRun(s) ==
  IF s # <<>> /\ (IsDigit(Head(s)) \/ Head(s) = ";") THEN 1 + ParamRun(Tail(s)) ELSE 0

\* stripAnsi(text): remove every ESC [ <params> <letter> sequence
RECURSIVE stripAnsi(_)
stripAnsi(s) ==
  IF s = <<>> THEN <<>>
  ELSE IF Head(s) = ESC /\ Len(s) >= 2 /\ s[2] = "["
    THEN LET n == ParamRun(SubSeq(s, 3, Len(s)))
         IN  IF Len(s) >= n + 3 /\ IsLetter(s[n + 3])
               THEN stripAnsi(SubSeq(s, n + 4, Len(s)))
               ELSE <<Head(s)>> \o stripAnsi(Tail(s))
    ELSE <<Head(s)>> \o stripAnsi(Tail(s))

\* the last up-to-3 lines of the cleaned text
TailLines(clean) ==
  LET lines == SplitLines(clean)
  IN  SubSeq(lines, Max(1, Len(lines) - 2), Len(lines))

\* /\(y\/n\)\s*$/i and its bracket and yes/no forms
ConfirmPatterns ==
  { <<"(", "y", "/", "n", ")">>,
    <<"[", "y", "/", "n", "]">>,
    <<"(", "y", "e", "s", "/", "n", "o", ")">> }

\* a selector line: a non-ASCII pointer glyph, blanks, a digit and a dot
SELECTOR_GLYPH == "GLYPH"
IsSelectorLine(line) ==
  LET t == TrimLeft(line)
  IN  /\ t # <<>>
      /\ Head(t) = SELECTOR_GLYPH
      /\ LET r == TrimLeft(Tail(t))
         IN  Len(r) >= 2 /\ IsDigit(r[1]) /\ r[2] = "."

\* a numbered "Yes, and don't ask again" option line
DONT_ASK ==
  <<"y", "e", "s", ",", " ", "a", "n", "d", " ", "d", "o", "n", "'", "t",
    " ", "a", "s", "k", " ", "a", "g", "a", "i", "n">>
IsDontAskLine(line) ==
  LET t == TrimLeft(line)
  IN  /\ Len(t) >= 2
      /\ IsDigit(t[1])
      /\ t[2] = "."
      /\ StartsWith(Lower(TrimLeft(SubSeq(t, 3, Len(t)))), DONT_ASK)

isPromptWaiting(data) ==
  LET tail == TailLines(Trim(stripAnsi(data)))
  IN  \E i \in 1..Len(tail) :
        \/ \E p \in ConfirmPatterns : EndsWith(Lower(TrimRight(tail[i])), p)
        \/ IsSelectorLine(tail[i])
        \/ IsDontAskLine(tail[i])

TOTAL_COST == <<"t", "o", "t", "a", "l", " ", "c", "o", "s", "t", ":">>
SESSION_COST ==
  <<"s", "e", "s", "s", "i", "o", "n", " ", "c", "o", "s", "t", ":">>
TOTAL_TOKENS ==
  <<"t", "o", "t", "a", "l", " ", "t", "o", "k", "e", "n", "s", ":">>

isGenerationComplete(data) ==
  LET clean == Lower(Trim(stripAnsi(data)))
  IN  Contains(clean, TOTAL_COST) \/ Contains(clean, SESSION_COST)

\* the run of value characters [0-9.,] at the head of s
RECURSIVE ValueRun(_)
ValueRun(s) ==
  IF s # <<>> /\ (IsDigit(Head(s)) \/ Head(s) \in {".", ","})
    THEN <<Head(s)>> \o ValueRun(Tail(s)) ELSE <<>>

\* the value of the first "<label> [$]<value>" in the text; <<>> when the
\* label does not match
LabelValue(clean, label) ==
  LET hits == {i \in 0..(Len(clean) - Len(label)) :
                 /\ SubSeq(Lower(clean), i + 1, i + Len(label)) = label
                 /\ LET r == TrimLeft(SubSeq(clean, i + Len(label) + 1, Len(clean)))
                        v == IF r # <<>> /\ Head(r) = "$" THEN Tail(r) ELSE r
                    IN  ValueRun(v) # <<>> /\ IsDigit(Head(v))}
  IN  IF hits = {} THEN <<>>
      ELSE LET i == CHOOSE h \in hits : \A g \in hits : h <= g
               r == TrimLeft(SubSeq(clean, i + Len(label) + 1, Len(clean)))
               v == IF Head(r) = "$" THEN Tail(r) ELSE r
           IN  ValueRun(v)

CostFields == {"sessionCost", "totalCost", "totalTokens"}
FieldLabel(f) ==
  CASE f = "sessionCost" -> SESSION_COST
    [] f = "totalCost" -> TOTAL_COST
    [] f = "totalTokens" -> TOTAL_TOKENS

\* JavaScript null for a metrics object: a snapshot or a parse result is
\* either null or has at least one field, so null is the empty mapping
NULL_DATA == [f \in {} |-> <<>>]

\* parseCostData(text): the fields that matched, or null when none did
parseCostData(data) ==
  LET clean == Trim(stripAnsi(data))
      found == {f \in CostFields : LabelValue(clean, FieldLabel(f)) # <<>>}
  IN  IF found = {} THEN NULL_DATA
      ELSE [f \in found |-> LabelValue(clean, FieldLabel(f))]

\* the snapshot is replaced by the new fields
Merge_replace(old, new) == new

\* a value seen again is appended to the one kept
Merge_concat(old, new) ==
  [f \in (DOMAIN old) \cup (DOMAIN new) |->
     IF f \in DOMAIN new
       THEN IF f \in DOMAIN old THEN old[f] \o new[f] ELSE new[f]
       ELSE old[f]]

\* OutputAccumulator: the persistent snapshot; the raw tail buffer is
\* write-only and is left out
Merge(old, new) ==
  [f \in (DOMAIN old) \cup (DOMAIN new) |-> IF f \in DOMAIN new THEN new[f] ELSE old[f]]

\* append returns the fields of the chunk instead of the merged snapshot
append_parsedOnly(acc, data) ==
  LET parsed == parseCostData(data)
  IN  IF parsed = NULL_DATA
        THEN [acc |-> acc, result |-> NULL_DATA]
        ELSE LET merged == IF acc.lastCostData = NULL_DATA THEN parsed
                           ELSE Merge(acc.lastCostData, parsed)
             IN  [acc |-> [acc EXCEPT !.lastCostData = merged], result |-> parsed]

\* accumulator.append(data): merge the parsed fields; result is the costData
\* of the returned object, the full merged snapshot, or null
append(acc, data) ==
  LET parsed == parseCostData(data)
  IN  IF parsed = NULL_DATA
        THEN [acc |-> acc, result |-> NULL_DATA]
        ELSE LET merged == IF acc.lastCostData = NULL_DATA THEN parsed
                           ELSE Merge(acc.lastCostData, parsed)
             IN  [acc |-> [acc EXCEPT !.lastCostData = merged], result |-> merged]

getLastCostData(acc) == acc.lastCostData

reset(acc) == [acc EXCEPT !.lastCostData = NULL_DATA]

(***************************************************************************)
(* Output chunks of the supervised process and observer inputs.            *)
(***************************************************************************)
TinyChunk == <<"a">>
PairChunk == <<"b", "c">>
PromptChunk ==
  <<"O", "v", "e", "r", "w", "r", "i", "t", "e", "?", " ", "(", "Y", "/",
    "n", ")", " ">>
CostChunk ==
  <<"T", "o", "t", "a", "l", " ", "c", "o", "s", "t", ":", " ", "$", "2",
    ".", "5", "0">>
LongChunk ==
  <<"R", "e", "a", "d", "i", "n", "g", " ", "t", "h", "e", " ", "p", "r",
    "o", "j", "e", "c", "t", " ", "f", "i", "l", "e", "s", " ", "b", "e", "f",
    "o", "r", "e", " ", "e", "d", "i", "t", "i", "n", "g">>
ShortChunk == <<"T", "h", "i", "n", "k", "i", "n", "g", ".", ".", ".">>
Chunks == {TinyChunk, PairChunk, ShortChunk, PromptChunk, CostChunk, LongChunk}

\* a confirmation prompt of 5 characters in colour, and one of more than
\* 30 characters
AnsiPromptChunk ==
  <<ESC, "[", "3", "2", "m", "(", "Y", "/", "n", ")", " ", ESC, "[", "0", "m">>
LongPromptChunk ==
  <<"D", "o", " ", "y", "o", "u", " ", "w", "a", "n", "t", " ", "t", "o", " ",
    "o", "v", "e", "r", "w", "r", "i", "t", "e", " ", "t", "h", "e", " ",
    "f", "i", "l", "e", "?", " ", "(", "Y", "/", "n", ")", " ">>
ClassifyChunks ==
  {TinyChunk, AnsiPromptChunk, ShortChunk, PromptChunk, LongPromptChunk, CostChunk,
   LongChunk}

InputData == {<<"y", CR>>, <<"n", CR>>}

READONLY_NOTICE ==
  <<CR, LF, ESC, "[", "3", "1", "m", "-", "-", "-", " ", "R", "e", "a", "d",
    "-", "o", "n", "l", "y", " ", "m", "o", "d", "e", ":", " ", "i", "n", "p",
    "u", "t", " ", "d", "i", "s", "a", "b", "l", "e", "d", " ", "-", "-", "-",
    ESC, "[", "0", "m", CR, LF>>
RESTART_NOTICE ==
  <<CR, LF, ESC, "[", "3", "3", "m", "-", "-", "-", " ", "R", "e", "s", "t",
    "a", "r", "t", "i", "n", "g", " ", "C", "l", "a", "u", "d", "e", ".", ".",
    ".", " ", "-", "-", "-", ESC, "[", "0", "m", CR, LF>>

TITLE_WAITING == "Claude is waiting for input"
BODY_WAITING == "Your Claude Code session needs your attention."
TITLE_FINISHED == "Claude finished generating"
BODY_FINISHED == "Generation complete. Check the output."

AUTH_TOKEN == "token"
Tokens == {AUTH_TOKEN, "wrong"}
Observers == {"s1", "s2"}
ExitCodes == {0, 1}
Signals == {0, 15}

(***************************************************************************)
(* State.                                                                  *)
(***************************************************************************)
VARIABLES
  SCROLLBACK_LIMIT,   \* configured at startup from CLAUDE_REMOTE_SCROLLBACK
  READONLY,           \* --readonly
  runtime,            \* the node process: "running", "exit0" or "exit1"
  ptyProcess,         \* handle of the supervised process
  scrollbackBuffer,
  waitingForInput,
  shuttingDown,
  accumulator,
  notifier,
  timers,             \* armed setTimeout timers of the runtime
  sockets,            \* per observer: connected flag and the messages received
  serverClosing,      \* server.close() was called
  produced,           \* history: all chunks appended since the buffer was cleared
  nlog,               \* history: Notifier calls and dispatches, exits and
                      \* spawns of the supervised process, in order
  ilog,               \* history: the messages the server received from
                      \* observers, in order, each with its sender and the
                      \* number of the process ptyProcess held; an input also
                      \* with whether it was written to the process
  alog,               \* history: the chunks appended to the accumulator since
                      \* its last reset, each with the value append returned
  events              \* history: number of events of the environment so far

vars ==
  <<SCROLLBACK_LIMIT, READONLY, runtime, ptyProcess, scrollbackBuffer,
    waitingForInput, shuttingDown, accumulator, notifier, timers, sockets,
    serverClosing, produced, nlog, ilog, alog, events>>

(***************************************************************************)
(* lib/notifier.js: the Notifier class.  A value s of the operators below  *)
(* is the pair [notifier, timers]: the object's fields and the timers the  *)
(* runtime holds armed.                                                    *)
(***************************************************************************)
NoTimer == 0

FreshId(ts) == CHOOSE i \in 1..(Cardinality(ts) + 1) : \A t \in ts : t.id # i

\* new Notifier({topic}): enabled only with a topic
NewNotifier(topic) ==
  [topic |-> topic, enabled |-> topic # NULL, destroyed |-> FALSE, pendingTimer |-> NoTimer]

isPending(n) == n.pendingTimer # NoTimer

\* clearTimeout(id)
clearTimeout(ts, id) == {t \in ts : t.id # id}

\* the handle is dropped but the timer is not cleared
cancelPending_handleOnly(s) == [s EXCEPT !.notifier.pendingTimer = NoTimer]

cancelPending(s) ==
  IF s.notifier.pendingTimer # NoTimer
    THEN [notifier |-> [s.notifier EXCEPT !.pendingTimer = NoTimer],
          timers |-> clearTimeout(s.timers, s.notifier.pendingTimer)]
    ELSE s

\* a new timer is armed without cancelling the pending one
scheduleNotification_noReset(s, title, body) ==
  IF ~s.notifier.enabled \/ s.notifier.destroyed
    THEN s
    ELSE LET id == FreshId(s.timers)
         IN  [notifier |-> [s.notifier EXCEPT !.pendingTimer = id],
              timers |-> s.timers \cup
                         {[id |-> id, kind |-> "debounce", title |-> title, body |-> body]}]

\* the enabled flag is not consulted
scheduleNotification_ignoreEnabled(s, title, body) ==
  IF s.notifier.destroyed
    THEN s
    ELSE LET c == cancelPending(s)
             id == FreshId(c.timers)
         IN  [notifier |-> [c.notifier EXCEPT !.pendingTimer = id],
              timers |-> c.timers \cup
                         {[id |-> id, kind |-> "debounce", title |-> title, body |-> body]}]

scheduleNotification(s, title, body) ==
  IF ~s.notifier.enabled \/ s.notifier.destroyed
    THEN s
    ELSE LET c == cancelPending(s)
             id == FreshId(c.timers)
         IN  [notifier |-> [c.notifier EXCEPT !.pendingTimer = id],
              timers |-> c.timers \cup
                         {[id |-> id, kind |-> "debounce", title |-> title, body |-> body]}]

\* disabling also drops the handle of the armed timer
setEnabled_dropPending(n, enabled) ==
  [n EXCEPT !.enabled = enabled, !.pendingTimer = IF enabled THEN @ ELSE NoTimer]

setEnabled(n, enabled) == [n EXCEPT !.enabled = enabled]

destroy(s) ==
  LET c == cancelPending(s)
  IN  [c EXCEPT !.notifier.destroyed = TRUE]

\* sendImmediate: "posted" when the alert is handed to the sink, "disabled"
\* when the dispatch is skipped
sendImmediate(n, title, body) == IF n.enabled THEN "posted" ELSE "disabled"

\* the callback dispatches without going idle
onDebounce_keepHandle(n) == n

\* the debounce timer's callback: idle first, then dispatch
onDebounce(n) == [n EXCEPT !.pendingTimer = NoTimer]

\* history records of the Notifier's calls and dispatches
Call(ev, title, body) == [ev |-> ev, title |-> title, body |-> body, en |-> notifier.enabled]

(***************************************************************************)
(* server.js                                                               *)
(***************************************************************************)
\* the handle pty.spawn returns: 80 columns, 30 rows
Spawned ==
  [exists |-> TRUE, alive |-> TRUE, killed |-> FALSE, cols |-> 80, rows |-> 30,
   written |-> <<>>]
NoPty ==
  [exists |-> FALSE, alive |-> FALSE, killed |-> FALSE, cols |-> 0, rows |-> 0,
   written |-> <<>>]

Msg(kind, data) == [kind |-> kind, data |-> data]

\* io.emit that puts the message before the ones already sent
Emit_newestFirst(socks, kind, data) ==
  [o \in Observers |->
     IF socks[o].connected THEN [socks[o] EXCEPT !.inbox = <<Msg(kind, data)>> \o @]
     ELSE socks[o]]

\* io.emit(kind, data): to every connected socket
Emit(socks, kind, data) ==
  [o \in Observers |->
     IF socks[o].connected THEN [socks[o] EXCEPT !.inbox = Append(@, Msg(kind, data))]
     ELSE socks[o]]

\* socket.emit(kind, data): to one socket
EmitTo(socks, o, kind, data) == [socks EXCEPT ![o].inbox = Append(@, Msg(kind, data))]

\* the chunk is appended twice
appendToScrollback_twice(buffer, data, limit) ==
  LET b == buffer \o data \o data
  IN  IF Len(b) > limit THEN Slice(b, -limit) ELSE b

appendToScrollback(buffer, data, limit) ==
  LET b == buffer \o data
  IN  IF Len(b) > limit THEN Slice(b, -limit) ELSE b

\* substantial other output clears the flag without cancelling the alert
Detect_noCancel(data, s) ==
  LET clean == Trim(stripAnsi(data))
  IN  IF Len(clean) > 5 /\ isPromptWaiting(data)
        THEN [waiting |-> TRUE,
              s |-> scheduleNotification(s, TITLE_WAITING, BODY_WAITING),
              calls |-> <<Call("schedule", TITLE_WAITING, BODY_WAITING)>>]
      ELSE IF Len(clean) > 5 /\ isGenerationComplete(data)
        THEN [waiting |-> TRUE,
              s |-> scheduleNotification(s, TITLE_FINISHED, BODY_FINISHED),
              calls |-> <<Call("schedule", TITLE_FINISHED, BODY_FINISHED)>>]
      ELSE IF Len(clean) > 5 /\ Len(clean) > 30
        THEN [waiting |-> FALSE, s |-> s, calls |-> <<>>]
      ELSE [waiting |-> waitingForInput, s |-> s, calls |-> <<>>]

\* a completed generation sets the flag but schedules nothing
Detect_completionSilent(data, s) ==
  LET clean == Trim(stripAnsi(data))
  IN  IF Len(clean) > 5 /\ isPromptWaiting(data)
        THEN [waiting |-> TRUE,
              s |-> scheduleNotification(s, TITLE_WAITING, BODY_WAITING),
              calls |-> <<Call("schedule", TITLE_WAITING, BODY_WAITING)>>]
      ELSE IF Len(clean) > 5 /\ isGenerationComplete(data)
        THEN [waiting |-> TRUE, s |-> s, calls |-> <<>>]
      ELSE IF Len(clean) > 5 /\ Len(clean) > 30
        THEN [waiting |-> FALSE,
              s |-> cancelPending(s),
              calls |-> <<Call("cancel", NULL, NULL)>>]
      ELSE [waiting |-> waitingForInput, s |-> s, calls |-> <<>>]

\* substantial other output cancels the alert but leaves the flag
Detect_keepsFlag(data, s) ==
  LET clean == Trim(stripAnsi(data))
  IN  IF Len(clean) > 5 /\ isPromptWaiting(data)
        THEN [waiting |-> TRUE,
              s |-> scheduleNotification(s, TITLE_WAITING, BODY_WAITING),
              calls |-> <<Call("schedule", TITLE_WAITING, BODY_WAITING)>>]
      ELSE IF Len(clean) > 5 /\ isGenerationComplete(data)
        THEN [waiting |-> TRUE,
              s |-> scheduleNotification(s, TITLE_FINISHED, BODY_FINISHED),
              calls |-> <<Call("schedule", TITLE_FINISHED, BODY_FINISHED)>>]
      ELSE IF Len(clean) > 5 /\ Len(clean) > 30
        THEN [waiting |-> waitingForInput,
              s |-> cancelPending(s),
              calls |-> <<Call("cancel", NULL, NULL)>>]
      ELSE [waiting |-> waitingForInput, s |-> s, calls |-> <<>>]

\* the detection runs on every chunk, whatever its length
Detect_noGate(data, s) ==
  LET clean == Trim(stripAnsi(data))
  IN  IF isPromptWaiting(data)
        THEN [waiting |-> TRUE,
              s |-> scheduleNotification(s, TITLE_WAITING, BODY_WAITING),
              calls |-> <<Call("schedule", TITLE_WAITING, BODY_WAITING)>>]
      ELSE IF isGenerationComplete(data)
        THEN [waiting |-> TRUE,
              s |-> scheduleNotification(s, TITLE_FINISHED, BODY_FINISHED),
              calls |-> <<Call("schedule", TITLE_FINISHED, BODY_FINISHED)>>]
      ELSE IF Len(clean) > 30
        THEN [waiting |-> FALSE,
              s |-> cancelPending(s),
              calls |-> <<Call("cancel", NULL, NULL)>>]
      ELSE [waiting |-> waitingForInput, s |-> s, calls |-> <<>>]

\* a completed generation is announced with the title and body of a prompt
Detect_oneTitle(data, s) ==
  LET clean == Trim(stripAnsi(data))
  IN  IF Len(clean) > 5 /\ (isPromptWaiting(data) \/ isGenerationComplete(data))
        THEN [waiting |-> TRUE,
              s |-> scheduleNotification(s, TITLE_WAITING, BODY_WAITING),
              calls |-> <<Call("schedule", TITLE_WAITING, BODY_WAITING)>>]
      ELSE IF Len(clean) > 5 /\ Len(clean) > 30
        THEN [waiting |-> FALSE,
              s |-> cancelPending(s),
              calls |-> <<Call("cancel", NULL, NULL)>>]
      ELSE [waiting |-> waitingForInput, s |-> s, calls |-> <<>>]

\* the prompt detection of the onData handler: the new waitingForInput, the
\* new Notifier state and the Notifier calls made
Detect(data, s) ==
  LET clean == Trim(stripAnsi(data))
  IN  IF Len(clean) > 5 /\ isPromptWaiting(data)
        THEN [waiting |-> TRUE,
              s |-> scheduleNotification(s, TITLE_WAITING, BODY_WAITING),
              calls |-> <<Call("schedule", TITLE_WAITING, BODY_WAITING)>>]
      ELSE IF Len(clean) > 5 /\ isGenerationComplete(data)
        THEN [waiting |-> TRUE,
              s |-> scheduleNotification(s, TITLE_FINISHED, BODY_FINISHED),
              calls |-> <<Call("schedule", TITLE_FINISHED, BODY_FINISHED)>>]
      ELSE IF Len(clean) > 5 /\ Len(clean) > 30
        THEN [waiting |-> FALSE,
              s |-> cancelPending(s),
              calls |-> <<Call("cancel", NULL, NULL)>>]
      ELSE [waiting |-> waitingForInput, s |-> s, calls |-> <<>>]

\* the handler merging the metrics without telling the observers
PtyData_noStatus(data) ==
  /\ runtime = "running"
  /\ ptyProcess.alive
  /\ events < MaxEvents
  /\ LET out == Emit(sockets, "output", data)
         parsed == append(accumulator, data)
         det == Detect(data, [notifier |-> notifier, timers |-> timers])
     IN  /\ sockets' = out
         /\ scrollbackBuffer' = appendToScrollback(scrollbackBuffer, data, SCROLLBACK_LIMIT)
         /\ accumulator' = parsed.acc
         /\ waitingForInput' = det.waiting
         /\ notifier' = det.s.notifier
         /\ timers' = det.s.timers
         /\ nlog' = nlog \o det.calls
         /\ alog' = Append(alog, [data |-> data, result |-> parsed.result])
  /\ produced' = produced \o data
  /\ events' = events + 1
  /\ UNCHANGED <<SCROLLBACK_LIMIT, READONLY, ilog, runtime, ptyProcess, shuttingDown, serverClosing>>

\* the status-update carries the fields of the chunk, not the snapshot
PtyData_parsedOnly(data) ==
  /\ runtime = "running"
  /\ ptyProcess.alive
  /\ events < MaxEvents
  /\ LET out == Emit(sockets, "output", data)
         parsed == append(accumulator, data)
         det == Detect(data, [notifier |-> notifier, timers |-> timers])
     IN  /\ sockets' = IF parsed.result # NULL_DATA
                         THEN Emit(out, "status-update", parseCostData(data))
                         ELSE out
         /\ scrollbackBuffer' = appendToScrollback(scrollbackBuffer, data, SCROLLBACK_LIMIT)
         /\ accumulator' = parsed.acc
         /\ waitingForInput' = det.waiting
         /\ notifier' = det.s.notifier
         /\ timers' = det.s.timers
         /\ nlog' = nlog \o det.calls
         /\ alog' = Append(alog, [data |-> data, result |-> parsed.result])
  /\ produced' = produced \o data
  /\ events' = events + 1
  /\ UNCHANGED <<SCROLLBACK_LIMIT, READONLY, ilog, runtime, ptyProcess, shuttingDown, serverClosing>>

\* ptyProcess.onData
PtyData(data) ==
  /\ runtime = "running"
  /\ ptyProcess.alive
  /\ events < MaxEvents
  /\ LET out == Emit(sockets, "output", data)
         parsed == append(accumulator, data)
         det == Detect(data, [notifier |-> notifier, timers |-> timers])
     IN  /\ sockets' = IF parsed.result # NULL_DATA
                         THEN Emit(out, "status-update", parsed.result)
                         ELSE out
         /\ scrollbackBuffer' = appendToScrollback(scrollbackBuffer, data, SCROLLBACK_LIMIT)
         /\ accumulator' = parsed.acc
         /\ waitingForInput' = det.waiting
         /\ notifier' = det.s.notifier
         /\ timers' = det.s.timers
         /\ nlog' = nlog \o det.calls
         /\ alog' = Append(alog, [data |-> data, result |-> parsed.result])
  /\ produced' = produced \o data
  /\ events' = events + 1
  /\ UNCHANGED <<SCROLLBACK_LIMIT, READONLY, ilog, runtime, ptyProcess, shuttingDown, serverClosing>>

\* onExit returning on shuttingDown before it tells the observers
PtyExit_quietOnShutdown(exitCode) ==
  /\ runtime = "running"
  /\ ptyProcess.alive
  /\ events < MaxEvents
  /\ ptyProcess' = [ptyProcess EXCEPT !.alive = FALSE]
  /\ nlog' = Append(nlog, Call("exit", NULL, NULL))
  /\ IF shuttingDown
       THEN UNCHANGED <<sockets, scrollbackBuffer, accumulator, timers, produced, alog>>
       ELSE /\ \E signal \in Signals :
                 sockets' = Emit(sockets, "pty-exit", <<exitCode, signal>>)
            /\ scrollbackBuffer' = <<>>
            /\ accumulator' = reset(accumulator)
            /\ timers' = timers \cup
                 {[id |-> FreshId(timers), kind |-> "restart", title |-> NULL, body |-> NULL]}
            /\ produced' = <<>>
            /\ alog' = <<>>
  /\ events' = events + 1
  /\ UNCHANGED <<SCROLLBACK_LIMIT, READONLY, ilog, runtime, waitingForInput, shuttingDown,
                 notifier, serverClosing>>

\* onExit arms the restart timer without clearing the scrollback buffer
\* and the accumulator
PtyExit_noClear(exitCode) ==
  /\ runtime = "running"
  /\ ptyProcess.alive
  /\ events < MaxEvents
  /\ ptyProcess' = [ptyProcess EXCEPT !.alive = FALSE]
  /\ \E signal \in Signals : sockets' = Emit(sockets, "pty-exit", <<exitCode, signal>>)
  /\ nlog' = Append(nlog, Call("exit", NULL, NULL))
  /\ IF shuttingDown
       THEN UNCHANGED <<scrollbackBuffer, accumulator, timers, produced, alog>>
       ELSE /\ timers' = timers \cup
                 {[id |-> FreshId(timers), kind |-> "restart", title |-> NULL, body |-> NULL]}
            /\ UNCHANGED <<scrollbackBuffer, accumulator, produced, alog>>
  /\ events' = events + 1
  /\ UNCHANGED <<SCROLLBACK_LIMIT, READONLY, ilog, runtime, waitingForInput, shuttingDown,
                 notifier, serverClosing>>

\* ptyProcess.onExit
PtyExit(exitCode) ==
  /\ runtime = "running"
  /\ ptyProcess.alive
  /\ events < MaxEvents
  /\ ptyProcess' = [ptyProcess EXCEPT !.alive = FALSE]
  /\ \E signal \in Signals : sockets' = Emit(sockets, "pty-exit", <<exitCode, signal>>)
  /\ nlog' = Append(nlog, Call("exit", NULL, NULL))
  /\ IF shuttingDown
       THEN UNCHANGED <<scrollbackBuffer, accumulator, timers, produced, alog>>
       ELSE /\ scrollbackBuffer' = <<>>
            /\ accumulator' = reset(accumulator)
            /\ timers' = timers \cup
                 {[id |-> FreshId(timers), kind |-> "restart", title |-> NULL, body |-> NULL]}
            /\ produced' = <<>>
            /\ alog' = <<>>
  /\ events' = events + 1
  /\ UNCHANGED <<SCROLLBACK_LIMIT, READONLY, ilog, runtime, waitingForInput, shuttingDown,
                 notifier, serverClosing>>

\* what the alert sink answers to a POST: success, a response that is not
\* ok with its status text, or a network error with its message
SinkResponses ==
  {[kind |-> "ok", text |-> NULL],
   [kind |-> "http-error", text |-> "Bad Request"],
   [kind |-> "network-error", text |-> "Network down"]}

\* the value sendImmediate resolves to once the POST has settled
sendResult(response) ==
  IF response.kind = "ok"
    THEN [sent |-> TRUE, reason |-> NULL]
    ELSE [sent |-> FALSE, reason |-> response.text]

\* the dispatches handed to the sink whose POST has not settled
InFlight ==
  {k \in 1..Len(nlog) :
     /\ nlog[k].ev \in {"dispatch", "immediate"}
     /\ ~\E j \in (k + 1)..Len(nlog) : nlog[j].ev = "settled" /\ nlog[j].of = k}

\* history record of a settled POST
Settled(k, result) ==
  [ev |-> "settled", title |-> nlog[k].title, body |-> nlog[k].body,
   en |-> notifier.enabled, of |-> k, result |-> result]

\* a failed POST is thrown out of the timer's callback: the rejection is
\* unhandled and ends the runtime
FetchSettles_raises(response) ==
  /\ runtime = "running"
  /\ \E k \in InFlight : nlog' = Append(nlog, Settled(k, sendResult(response)))
  /\ runtime' = IF response.kind = "ok" THEN runtime ELSE "exit1"
  /\ UNCHANGED <<SCROLLBACK_LIMIT, READONLY, ilog, alog, ptyProcess, scrollbackBuffer,
                 waitingForInput, shuttingDown, accumulator, notifier, timers, sockets,
                 serverClosing, produced, events>>

\* the POST of a dispatch settles: sendImmediate resolves to its result,
\* which the timer's callback drops
FetchSettles(response) ==
  /\ runtime = "running"
  /\ \E k \in InFlight : nlog' = Append(nlog, Settled(k, sendResult(response)))
  /\ UNCHANGED <<SCROLLBACK_LIMIT, READONLY, ilog, alog, runtime, ptyProcess, scrollbackBuffer,
                 waitingForInput, shuttingDown, accumulator, notifier, timers, sockets,
                 serverClosing, produced, events>>

\* the delays of the timers, in milliseconds: the Notifier's default
\* debounce, the restart delay of onExit, the deadline of shutdown
DEFAULT_DEBOUNCE_MS == 1500
RESTART_DELAY_MS == 2000
FORCE_EXIT_MS == 5000

\* the runtime runs expired timers in the order of their deadlines: a timer
\* of kind `later` is due after every armed timer of kind `earlier` when
\* those were armed before it and their delay is shorter
DueAfter(earlier, earlierMs, laterMs) ==
  earlierMs < laterMs => ~\E t \in timers : t.kind = earlier

\* a failed spawn is retried: the callback arms the restart timer again
\* instead of ending the server
RestartTimer_retry ==
  /\ runtime = "running"
  /\ DueAfter("debounce", DEFAULT_DEBOUNCE_MS, RESTART_DELAY_MS)
  /\ \E t \in timers :
       /\ t.kind = "restart"
       /\ IF shuttingDown
            THEN /\ timers' = timers \ {t}
                 /\ nlog' = Append(nlog, Call("restart-skipped", NULL, NULL))
                 /\ UNCHANGED <<runtime, ptyProcess, sockets>>
            ELSE /\ sockets' = Emit(sockets, "output", RESTART_NOTICE)
                 /\ \E ok \in BOOLEAN :
                      IF ok THEN /\ ptyProcess' = Spawned
                                 /\ timers' = timers \ {t}
                                 /\ nlog' = Append(nlog, Call("spawn", NULL, NULL))
                                 /\ UNCHANGED runtime
                      ELSE /\ timers' = timers
                           /\ nlog' = Append(nlog, Call("spawn-failed", NULL, NULL))
                           /\ UNCHANGED <<runtime, ptyProcess>>
  /\ UNCHANGED <<SCROLLBACK_LIMIT, READONLY, ilog, alog, scrollbackBuffer, waitingForInput,
                 shuttingDown, accumulator, notifier, serverClosing, produced,
                 events>>

\* the timer's callback spawns without looking at shuttingDown
RestartTimer_noCheck ==
  /\ runtime = "running"
  /\ DueAfter("debounce", DEFAULT_DEBOUNCE_MS, RESTART_DELAY_MS)
  /\ \E t \in timers :
       /\ t.kind = "restart"
       /\ timers' = timers \ {t}
  /\ sockets' = Emit(sockets, "output", RESTART_NOTICE)
  /\ \E ok \in BOOLEAN :
       IF ok THEN /\ ptyProcess' = Spawned
                  /\ nlog' = Append(nlog, Call("spawn", NULL, NULL))
                  /\ UNCHANGED runtime
       ELSE /\ runtime' = "exit1"
            /\ nlog' = Append(nlog, Call("spawn-failed", NULL, NULL))
            /\ UNCHANGED ptyProcess
  /\ UNCHANGED <<SCROLLBACK_LIMIT, READONLY, ilog, alog, scrollbackBuffer, waitingForInput,
                 shuttingDown, accumulator, notifier, serverClosing, produced,
                 events>>

\* the timer is not consumed when it fires: it fires again
RestartTimer_keepTimer ==
  /\ runtime = "running"
  /\ DueAfter("debounce", DEFAULT_DEBOUNCE_MS, RESTART_DELAY_MS)
  /\ \E t \in timers :
       /\ t.kind = "restart"
       /\ timers' = timers
  /\ IF shuttingDown
       THEN /\ nlog' = Append(nlog, Call("restart-skipped", NULL, NULL))
            /\ UNCHANGED <<runtime, ptyProcess, sockets>>
       ELSE /\ sockets' = Emit(sockets, "output", RESTART_NOTICE)
            /\ \E ok \in BOOLEAN :
                 IF ok THEN /\ ptyProcess' = Spawned
                            /\ nlog' = Append(nlog, Call("spawn", NULL, NULL))
                            /\ UNCHANGED runtime
                 ELSE /\ runtime' = "exit1"
                      /\ nlog' = Append(nlog, Call("spawn-failed", NULL, NULL))
                      /\ UNCHANGED ptyProcess
  /\ UNCHANGED <<SCROLLBACK_LIMIT, READONLY, ilog, alog, scrollbackBuffer, waitingForInput,
                 shuttingDown, accumulator, notifier, serverClosing, produced,
                 events>>

\* the timer's callback restarts the process once and never again
RestartTimer_ceiling ==
  /\ runtime = "running"
  /\ DueAfter("debounce", DEFAULT_DEBOUNCE_MS, RESTART_DELAY_MS)
  /\ \E t \in timers :
       /\ t.kind = "restart"
       /\ timers' = timers \ {t}
  /\ IF shuttingDown \/ \E k \in 1..Len(nlog) : nlog[k].ev = "spawn"
       THEN /\ nlog' = Append(nlog, Call("restart-skipped", NULL, NULL))
            /\ UNCHANGED <<runtime, ptyProcess, sockets>>
       ELSE /\ sockets' = Emit(sockets, "output", RESTART_NOTICE)
            /\ \E ok \in BOOLEAN :
                 IF ok THEN /\ ptyProcess' = Spawned
                            /\ nlog' = Append(nlog, Call("spawn", NULL, NULL))
                            /\ UNCHANGED runtime
                 ELSE /\ runtime' = "exit1"
                      /\ nlog' = Append(nlog, Call("spawn-failed", NULL, NULL))
                      /\ UNCHANGED ptyProcess
  /\ UNCHANGED <<SCROLLBACK_LIMIT, READONLY, ilog, alog, scrollbackBuffer, waitingForInput,
                 shuttingDown, accumulator, notifier, serverClosing, produced,
                 events>>

\* the restart timer armed by onExit; spawnPty succeeds or pty.spawn throws.
\* A debounce timer that is armed was armed before the exit.
RestartTimer ==
  /\ runtime = "running"
  /\ DueAfter("debounce", DEFAULT_DEBOUNCE_MS, RESTART_DELAY_MS)
  /\ \E t \in timers :
       /\ t.kind = "restart"
       /\ timers' = timers \ {t}
  /\ IF shuttingDown
       THEN /\ nlog' = Append(nlog, Call("restart-skipped", NULL, NULL))
            /\ UNCHANGED <<runtime, ptyProcess, sockets>>
       ELSE /\ sockets' = Emit(sockets, "output", RESTART_NOTICE)
            /\ \E ok \in BOOLEAN :
                 IF ok THEN /\ ptyProcess' = Spawned
                            /\ nlog' = Append(nlog, Call("spawn", NULL, NULL))
                            /\ UNCHANGED runtime
                 ELSE /\ runtime' = "exit1"
                      /\ nlog' = Append(nlog, Call("spawn-failed", NULL, NULL))
                      /\ UNCHANGED ptyProcess
  /\ UNCHANGED <<SCROLLBACK_LIMIT, READONLY, ilog, alog, scrollbackBuffer, waitingForInput,
                 shuttingDown, accumulator, notifier, serverClosing, produced,
                 events>>

\* the scrollback goes out with io.emit instead of socket.emit
onConnection_toAll(socks, o, buffer, lastCost) ==
  LET replay == IF Len(buffer) > 0 THEN Emit(socks, "output", buffer) ELSE socks
  IN  IF lastCost # NULL_DATA THEN EmitTo(replay, o, "status-update", lastCost) ELSE replay

\* the last known cost data is not sent
onConnection_noStatus(socks, o, buffer, lastCost) ==
  IF Len(buffer) > 0 THEN EmitTo(socks, o, "output", buffer) ELSE socks

\* io.on('connection'): the catch-up payloads of a socket that joined
onConnection(socks, o, buffer, lastCost) ==
  LET replay == IF Len(buffer) > 0 THEN EmitTo(socks, o, "output", buffer) ELSE socks
  IN  IF lastCost # NULL_DATA THEN EmitTo(replay, o, "status-update", lastCost) ELSE replay

\* the handler attaching whoever connects: io.use lets every token through
Connect_noAuth(o, token) ==
  /\ runtime = "running"
  /\ ~serverClosing
  /\ ~sockets[o].connected
  /\ events < MaxEvents
  /\ sockets' = onConnection([sockets EXCEPT ![o] = [connected |-> TRUE, inbox |-> <<>>]],
                             o, scrollbackBuffer, getLastCostData(accumulator))
  /\ events' = events + 1
  /\ UNCHANGED <<SCROLLBACK_LIMIT, READONLY, ilog, alog, runtime, ptyProcess, scrollbackBuffer,
                 waitingForInput, shuttingDown, accumulator, notifier, timers,
                 serverClosing, produced, nlog>>

\* io.use (token check), then the connection handler
Connect(o, token) ==
  /\ runtime = "running"
  /\ ~serverClosing
  /\ ~sockets[o].connected
  /\ events < MaxEvents
  /\ IF token = AUTH_TOKEN
       THEN sockets' = onConnection([sockets EXCEPT ![o] = [connected |-> TRUE, inbox |-> <<>>]],
                                    o, scrollbackBuffer, getLastCostData(accumulator))
       ELSE UNCHANGED sockets
  /\ events' = IF token = AUTH_TOKEN THEN events + 1 ELSE events
  /\ UNCHANGED <<SCROLLBACK_LIMIT, READONLY, ilog, alog, runtime, ptyProcess, scrollbackBuffer,
                 waitingForInput, shuttingDown, accumulator, notifier, timers,
                 serverClosing, produced, nlog>>

\* socket.on('disconnect')
Disconnect(o) ==
  /\ runtime = "running"
  /\ sockets[o].connected
  /\ events < MaxEvents
  /\ sockets' = [sockets EXCEPT ![o] = [connected |-> FALSE, inbox |-> <<>>]]
  /\ events' = events + 1
  /\ UNCHANGED <<SCROLLBACK_LIMIT, READONLY, ilog, alog, runtime, ptyProcess, scrollbackBuffer,
                 waitingForInput, shuttingDown, accumulator, notifier, timers,
                 serverClosing, produced, nlog>>

\* the processes spawned by the restart timer so far: the number, counted
\* from 0, of the process ptyProcess holds
Generation == Cardinality({k \in 1..Len(nlog) : nlog[k].ev = "spawn"})

\* history records of the messages of observers
Received(ev, o, data) ==
  [ev |-> ev, from |-> o, data |-> data, generation |-> Generation]

InputRecord(o, data, written) ==
  [ev |-> "input", from |-> o, data |-> data, generation |-> Generation,
   written |-> written]

\* the handler putting the input before what was written already
Input_newestFirst(o, data) ==
  /\ runtime = "running"
  /\ sockets[o].connected
  /\ events < MaxEvents
  /\ IF READONLY
       THEN /\ sockets' = EmitTo(sockets, o, "output", READONLY_NOTICE)
            /\ UNCHANGED <<waitingForInput, notifier, timers, ptyProcess, nlog>>
            /\ ilog' = Append(ilog, InputRecord(o, data, FALSE))
       ELSE LET c == cancelPending([notifier |-> notifier, timers |-> timers])
            IN  /\ waitingForInput' = FALSE
                /\ notifier' = c.notifier
                /\ timers' = c.timers
                /\ nlog' = Append(nlog, Call("cancel", NULL, NULL))
                /\ ptyProcess' = IF ptyProcess.exists /\ ~ptyProcess.killed
                                   THEN [ptyProcess EXCEPT !.written = <<data>> \o @]
                                   ELSE ptyProcess
                /\ ilog' = Append(ilog, InputRecord(o, data,
                                                    ptyProcess.exists /\ ~ptyProcess.killed))
                /\ UNCHANGED sockets
  /\ events' = events + 1
  /\ UNCHANGED <<SCROLLBACK_LIMIT, READONLY, alog, runtime, scrollbackBuffer, shuttingDown,
                 accumulator, serverClosing, produced>>

\* the handler clearing the flag without cancelling the notification
Input_keepPending(o, data) ==
  /\ runtime = "running"
  /\ sockets[o].connected
  /\ events < MaxEvents
  /\ IF READONLY
       THEN /\ sockets' = EmitTo(sockets, o, "output", READONLY_NOTICE)
            /\ UNCHANGED <<waitingForInput, notifier, timers, ptyProcess, nlog>>
            /\ ilog' = Append(ilog, InputRecord(o, data, FALSE))
       ELSE LET c == [notifier |-> notifier, timers |-> timers]
            IN  /\ waitingForInput' = FALSE
                /\ notifier' = c.notifier
                /\ timers' = c.timers
                /\ nlog' = Append(nlog, Call("cancel", NULL, NULL))
                /\ ptyProcess' = IF ptyProcess.exists /\ ~ptyProcess.killed
                                   THEN [ptyProcess EXCEPT !.written = Append(@, data)]
                                   ELSE ptyProcess
                /\ ilog' = Append(ilog, InputRecord(o, data,
                                                    ptyProcess.exists /\ ~ptyProcess.killed))
                /\ UNCHANGED sockets
  /\ events' = events + 1
  /\ UNCHANGED <<SCROLLBACK_LIMIT, READONLY, alog, runtime, scrollbackBuffer, shuttingDown,
                 accumulator, serverClosing, produced>>

\* the handler touching flag and notification only when it can write
Input_cancelIfLive(o, data) ==
  /\ runtime = "running"
  /\ sockets[o].connected
  /\ events < MaxEvents
  /\ IF READONLY
       THEN /\ sockets' = EmitTo(sockets, o, "output", READONLY_NOTICE)
            /\ UNCHANGED <<waitingForInput, notifier, timers, ptyProcess, nlog>>
            /\ ilog' = Append(ilog, InputRecord(o, data, FALSE))
       ELSE LET c == IF ptyProcess.exists /\ ~ptyProcess.killed
                       THEN cancelPending([notifier |-> notifier, timers |-> timers])
                       ELSE [notifier |-> notifier, timers |-> timers]
            IN  /\ waitingForInput' = (waitingForInput /\ ~(ptyProcess.exists /\ ~ptyProcess.killed))
                /\ notifier' = c.notifier
                /\ timers' = c.timers
                /\ nlog' = Append(nlog, Call("cancel", NULL, NULL))
                /\ ptyProcess' = IF ptyProcess.exists /\ ~ptyProcess.killed
                                   THEN [ptyProcess EXCEPT !.written = Append(@, data)]
                                   ELSE ptyProcess
                /\ ilog' = Append(ilog, InputRecord(o, data,
                                                    ptyProcess.exists /\ ~ptyProcess.killed))
                /\ UNCHANGED sockets
  /\ events' = events + 1
  /\ UNCHANGED <<SCROLLBACK_LIMIT, READONLY, alog, runtime, scrollbackBuffer, shuttingDown,
                 accumulator, serverClosing, produced>>

\* the rejection notice is broadcast with io.emit
Input_noticeToAll(o, data) ==
  /\ runtime = "running"
  /\ sockets[o].connected
  /\ events < MaxEvents
  /\ IF READONLY
       THEN /\ sockets' = Emit(sockets, "output", READONLY_NOTICE)
            /\ UNCHANGED <<waitingForInput, notifier, timers, ptyProcess, nlog>>
            /\ ilog' = Append(ilog, InputRecord(o, data, FALSE))
       ELSE LET c == cancelPending([notifier |-> notifier, timers |-> timers])
            IN  /\ waitingForInput' = FALSE
                /\ notifier' = c.notifier
                /\ timers' = c.timers
                /\ nlog' = Append(nlog, Call("cancel", NULL, NULL))
                /\ ptyProcess' = IF ptyProcess.exists /\ ~ptyProcess.killed
                                   THEN [ptyProcess EXCEPT !.written = Append(@, data)]
                                   ELSE ptyProcess
                /\ ilog' = Append(ilog, InputRecord(o, data,
                                                    ptyProcess.exists /\ ~ptyProcess.killed))
                /\ UNCHANGED sockets
  /\ events' = events + 1
  /\ UNCHANGED <<SCROLLBACK_LIMIT, READONLY, alog, runtime, scrollbackBuffer, shuttingDown,
                 accumulator, serverClosing, produced>>

\* the handler without its read-only gate
Input_noGate(o, data) ==
  /\ runtime = "running"
  /\ sockets[o].connected
  /\ events < MaxEvents
  /\ IF FALSE
       THEN /\ sockets' = EmitTo(sockets, o, "output", READONLY_NOTICE)
            /\ UNCHANGED <<waitingForInput, notifier, timers, ptyProcess, nlog>>
            /\ ilog' = Append(ilog, InputRecord(o, data, FALSE))
       ELSE LET c == cancelPending([notifier |-> notifier, timers |-> timers])
            IN  /\ waitingForInput' = FALSE
                /\ notifier' = c.notifier
                /\ timers' = c.timers
                /\ nlog' = Append(nlog, Call("cancel", NULL, NULL))
                /\ ptyProcess' = IF ptyProcess.exists /\ ~ptyProcess.killed
                                   THEN [ptyProcess EXCEPT !.written = Append(@, data)]
                                   ELSE ptyProcess
                /\ ilog' = Append(ilog, InputRecord(o, data,
                                                    ptyProcess.exists /\ ~ptyProcess.killed))
                /\ UNCHANGED sockets
  /\ events' = events + 1
  /\ UNCHANGED <<SCROLLBACK_LIMIT, READONLY, alog, runtime, scrollbackBuffer, shuttingDown,
                 accumulator, serverClosing, produced>>

\* socket.on('input')
Input(o, data) ==
  /\ runtime = "running"
  /\ sockets[o].connected
  /\ events < MaxEvents
  /\ IF READONLY
       THEN /\ sockets' = EmitTo(sockets, o, "output", READONLY_NOTICE)
            /\ UNCHANGED <<waitingForInput, notifier, timers, ptyProcess, nlog>>
            /\ ilog' = Append(ilog, InputRecord(o, data, FALSE))
       ELSE LET c == cancelPending([notifier |-> notifier, timers |-> timers])
            IN  /\ waitingForInput' = FALSE
                /\ notifier' = c.notifier
                /\ timers' = c.timers
                /\ nlog' = Append(nlog, Call("cancel", NULL, NULL))
                /\ ptyProcess' = IF ptyProcess.exists /\ ~ptyProcess.killed
                                   THEN [ptyProcess EXCEPT !.written = Append(@, data)]
                                   ELSE ptyProcess
                /\ ilog' = Append(ilog, InputRecord(o, data,
                                                    ptyProcess.exists /\ ~ptyProcess.killed))
                /\ UNCHANGED sockets
  /\ events' = events + 1
  /\ UNCHANGED <<SCROLLBACK_LIMIT, READONLY, alog, runtime, scrollbackBuffer, shuttingDown,
                 accumulator, serverClosing, produced>>

\* request paths, as their segments: /health, /socket.io/socket.io.js, /
\* and /index.html
HEALTH_PATH == <<"health">>
Paths == {HEALTH_PATH, <<"socket.io", "socket.io.js">>, <<>>, <<"index.html">>}

\* the token a client presents: the server's, another one, or none
NO_TOKEN == "undefined"
ClientTokens == {AUTH_TOKEN, "wrong", NO_TOKEN}

\* req.path.startsWith('/socket.io')
IsSocketIoPath(path) == Len(path) > 0 /\ path[1] = "socket.io"

\* the auth middleware of the HTTP server: "next" or the 403 response
authMiddleware(path, token) ==
  IF path = HEALTH_PATH THEN "next"
  ELSE IF IsSocketIoPath(path) THEN "next"
  ELSE IF token # AUTH_TOKEN THEN "403"
  ELSE "next"

\* what becomes of a request: answered by the health route or the static
\* files, refused with 403, or left to Socket.IO, which attaches the
\* client only with the token (io.use)
httpOutcome(path, token) ==
  IF authMiddleware(path, token) = "403" THEN "403"
  ELSE IF IsSocketIoPath(path)
    THEN (IF token = AUTH_TOKEN THEN "socket" ELSE "refused")
  ELSE "served"

\* an HTTP request: no state of the server changes
HttpGet(path, token) ==
  /\ runtime = "running"
  /\ events < MaxEvents
  /\ ilog' = Append(ilog, [ev |-> "http", from |-> NULL, data |-> NULL,
                           generation |-> Generation, path |-> path, token |-> token,
                           outcome |-> httpOutcome(path, token)])
  /\ events' = events + 1
  /\ UNCHANGED <<SCROLLBACK_LIMIT, READONLY, alog, runtime, ptyProcess, scrollbackBuffer,
                 waitingForInput, shuttingDown, accumulator, notifier, timers, sockets,
                 serverClosing, produced, nlog>>

\* a dimension of a resize message: a number, or absent (the property is
\* missing, undefined or null)
Absent == [defined |-> FALSE, n |-> 0]
Num(n) == [defined |-> TRUE, n |-> n]
Dims == {Absent, Num(0), Num(-5), Num(40), Num(120)}

\* the payload of a resize message: an object with cols and rows, or null
NoSize == [given |-> FALSE, cols |-> Absent, rows |-> Absent]
Sizes == {NoSize} \cup {[given |-> TRUE, cols |-> c, rows |-> r] : c \in Dims, r \in Dims}

\* JavaScript truthiness of a dimension: absent and 0 are falsy, every other
\* number is truthy
Truthy(d) == d.defined /\ d.n # 0

\* socket.on('resize').  ptyProcess.resize on a process that has exited
\* throws, and the handler swallows the exception.
Resize(o, size) ==
  /\ runtime = "running"
  /\ sockets[o].connected
  /\ events < MaxEvents
  /\ ptyProcess' =
       IF /\ size.given /\ Truthy(size.cols) /\ Truthy(size.rows)
          /\ ptyProcess.exists /\ ~ptyProcess.killed /\ ptyProcess.alive
         THEN [ptyProcess EXCEPT !.cols = Max(1, size.cols.n),
                                 !.rows = Max(1, size.rows.n)]
         ELSE ptyProcess
  /\ ilog' = Append(ilog, Received("resize", o, size))
  /\ events' = events + 1
  /\ UNCHANGED <<SCROLLBACK_LIMIT, READONLY, alog, runtime, scrollbackBuffer, waitingForInput,
                 shuttingDown, accumulator, notifier, timers, sockets, serverClosing,
                 produced, nlog>>

\* the handler answering with io.emit: every observer is sent the snapshot
RequestStatus_toAll(o) ==
  /\ runtime = "running"
  /\ sockets[o].connected
  /\ events < MaxEvents
  /\ LET lastCost == getLastCostData(accumulator)
     IN  sockets' = IF lastCost # NULL_DATA
                      THEN Emit(sockets, "status-update", lastCost)
                      ELSE sockets
  /\ ilog' = Append(ilog, Received("request-status", o, NULL))
  /\ events' = events + 1
  /\ UNCHANGED <<SCROLLBACK_LIMIT, READONLY, alog, runtime, ptyProcess, scrollbackBuffer,
                 waitingForInput, shuttingDown, accumulator, notifier, timers,
                 serverClosing, produced, nlog>>

\* socket.on('request-status')
RequestStatus(o) ==
  /\ runtime = "running"
  /\ sockets[o].connected
  /\ events < MaxEvents
  /\ LET lastCost == getLastCostData(accumulator)
     IN  sockets' = IF lastCost # NULL_DATA
                      THEN EmitTo(sockets, o, "status-update", lastCost)
                      ELSE sockets
  /\ ilog' = Append(ilog, Received("request-status", o, NULL))
  /\ events' = events + 1
  /\ UNCHANGED <<SCROLLBACK_LIMIT, READONLY, alog, runtime, ptyProcess, scrollbackBuffer,
                 waitingForInput, shuttingDown, accumulator, notifier, timers,
                 serverClosing, produced, nlog>>

\* a second request undoes the first: the flag is toggled
shutdown_toggle ==
  /\ runtime = "running"
  /\ events < MaxEvents
  /\ shuttingDown' = ~shuttingDown
  /\ LET d == destroy([notifier |-> notifier, timers |-> timers])
     IN  /\ notifier' = d.notifier
         /\ timers' = d.timers \cup
              {[id |-> FreshId(d.timers), kind |-> "force", title |-> NULL, body |-> NULL]}
  /\ nlog' = Append(nlog, Call("destroy", NULL, NULL))
  /\ ptyProcess' = IF ptyProcess.exists /\ ~ptyProcess.killed
                     THEN [ptyProcess EXCEPT !.killed = TRUE]
                     ELSE ptyProcess
  /\ serverClosing' = TRUE
  /\ events' = events + 1
  /\ UNCHANGED <<SCROLLBACK_LIMIT, READONLY, ilog, alog, runtime, scrollbackBuffer, waitingForInput,
                 accumulator, sockets, produced>>

\* shutdown without the hard deadline
shutdown_noDeadline ==
  /\ runtime = "running"
  /\ events < MaxEvents
  /\ shuttingDown' = TRUE
  /\ LET d == destroy([notifier |-> notifier, timers |-> timers])
     IN  /\ notifier' = d.notifier
         /\ timers' = d.timers
  /\ nlog' = Append(nlog, Call("destroy", NULL, NULL))
  /\ ptyProcess' = IF ptyProcess.exists /\ ~ptyProcess.killed
                     THEN [ptyProcess EXCEPT !.killed = TRUE]
                     ELSE ptyProcess
  /\ serverClosing' = TRUE
  /\ events' = events + 1
  /\ UNCHANGED <<SCROLLBACK_LIMIT, READONLY, ilog, alog, runtime, scrollbackBuffer, waitingForInput,
                 accumulator, sockets, produced>>

\* shutdown without notifier.destroy()
shutdown_noDestroy ==
  /\ runtime = "running"
  /\ events < MaxEvents
  /\ shuttingDown' = TRUE
  /\ timers' = timers \cup
       {[id |-> FreshId(timers), kind |-> "force", title |-> NULL, body |-> NULL]}
  /\ UNCHANGED <<notifier, nlog>>
  /\ ptyProcess' = IF ptyProcess.exists /\ ~ptyProcess.killed
                     THEN [ptyProcess EXCEPT !.killed = TRUE]
                     ELSE ptyProcess
  /\ serverClosing' = TRUE
  /\ events' = events + 1
  /\ UNCHANGED <<SCROLLBACK_LIMIT, READONLY, ilog, alog, runtime, scrollbackBuffer, waitingForInput,
                 accumulator, sockets, produced>>

\* shutdown(signal), on SIGINT or SIGTERM
shutdown ==
  /\ runtime = "running"
  /\ events < MaxEvents
  /\ shuttingDown' = TRUE
  /\ LET d == destroy([notifier |-> notifier, timers |-> timers])
     IN  /\ notifier' = d.notifier
         /\ timers' = d.timers \cup
              {[id |-> FreshId(d.timers), kind |-> "force", title |-> NULL, body |-> NULL]}
  /\ nlog' = Append(nlog, Call("destroy", NULL, NULL))
  /\ ptyProcess' = IF ptyProcess.exists /\ ~ptyProcess.killed
                     THEN [ptyProcess EXCEPT !.killed = TRUE]
                     ELSE ptyProcess
  /\ serverClosing' = TRUE
  /\ events' = events + 1
  /\ UNCHANGED <<SCROLLBACK_LIMIT, READONLY, ilog, alog, runtime, scrollbackBuffer, waitingForInput,
                 accumulator, sockets, produced>>

\* the callback of server.close: every connection has ended
ServerClosed ==
  /\ runtime = "running"
  /\ serverClosing
  /\ \A o \in Observers : ~sockets[o].connected
  /\ runtime' = "exit0"
  /\ UNCHANGED <<SCROLLBACK_LIMIT, READONLY, ilog, alog, ptyProcess, scrollbackBuffer, waitingForInput,
                 shuttingDown, accumulator, notifier, timers, sockets, serverClosing,
                 produced, nlog, events>>

\* the 5 second timer of shutdown.  A restart timer that is armed was armed
\* before the shutdown.
ForceExit ==
  /\ runtime = "running"
  /\ DueAfter("restart", RESTART_DELAY_MS, FORCE_EXIT_MS)
  /\ \E t \in timers : t.kind = "force"
  /\ runtime' = "exit1"
  /\ UNCHANGED <<SCROLLBACK_LIMIT, READONLY, ilog, alog, ptyProcess, scrollbackBuffer, waitingForInput,
                 shuttingDown, accumulator, notifier, timers, sockets, serverClosing,
                 produced, nlog, events>>

\* the debounce timer of the Notifier expires
DebounceTimer ==
  /\ runtime = "running"
  /\ \E t \in timers :
       /\ t.kind = "debounce"
       /\ timers' = timers \ {t}
       /\ notifier' = onDebounce(notifier)
       /\ nlog' = Append(nlog, Call(IF sendImmediate(onDebounce(notifier), t.title, t.body) = "posted"
                                      THEN "dispatch" ELSE "skipped",
                                    t.title, t.body))
  /\ UNCHANGED <<SCROLLBACK_LIMIT, READONLY, ilog, alog, runtime, ptyProcess, scrollbackBuffer,
                 waitingForInput, shuttingDown, accumulator, sockets, serverClosing,
                 produced, events>>

\* CLAUDE_REMOTE_SCROLLBACK || '50000'
DEFAULT_SCROLLBACK == 50000

NoSockets == [o \in Observers |-> [connected |-> FALSE, inbox |-> <<>>]]

\* the state once server.js is loaded: configuration read, first spawnPty done
Boot(limits) ==
  /\ SCROLLBACK_LIMIT \in limits
  /\ READONLY \in BOOLEAN
  /\ \E ok \in BOOLEAN :
       /\ runtime = IF ok THEN "running" ELSE "exit1"
       /\ ptyProcess = IF ok THEN Spawned ELSE NoPty
  /\ scrollbackBuffer = <<>>
  /\ waitingForInput = FALSE
  /\ shuttingDown = FALSE
  /\ accumulator = [lastCostData |-> NULL_DATA]
  /\ notifier = NewNotifier("topic")
  /\ timers = {}
  /\ sockets = NoSockets
  /\ serverClosing = FALSE
  /\ produced = <<>>
  /\ nlog = <<>>
  /\ ilog = <<>>
  /\ alog = <<>>
  /\ events = 0

\* the server with the default scrollback limit
Init == Boot({DEFAULT_SCROLLBACK})

Next ==
  \/ \E data \in Chunks : PtyData(data)
  \/ \E exitCode \in ExitCodes : PtyExit(exitCode)
  \/ RestartTimer
  \/ \E o \in Observers, token \in Tokens : Connect(o, token)
  \/ \E o \in Observers : Disconnect(o)
  \/ \E o \in Observers, data \in InputData : Input(o, data)
  \/ shutdown
  \/ ServerClosed
  \/ ForceExit
  \/ DebounceTimer

Spec == Init /\ [][Next]_vars

(***************************************************************************)
(* The server under the runtime's scheduling: a timer that is due is run.  *)
(***************************************************************************)
LiveSpec == Init /\ [][Next]_vars /\ WF_vars(RestartTimer) /\ WF_vars(DebounceTimer)

\* the same with the deadline timer of shutdown: it is run when it is due,
\* whatever the process and the observers do
DeadlineSpec ==
  Init /\ [][Next]_vars
       /\ WF_vars(RestartTimer) /\ WF_vars(DebounceTimer) /\ WF_vars(ForceExit)

(***************************************************************************)
(* The replay buffer under every small scrollback limit: output, restarts  *)
(* and observers attaching and leaving.                                    *)
(***************************************************************************)
ScrollInit == Boot(0..MaxLimit) /\ ~READONLY /\ runtime = "running"

ScrollNext ==
  \/ \E data \in Chunks : PtyData(data)
  \/ \E exitCode \in ExitCodes : PtyExit(exitCode)
  \/ RestartTimer
  \/ \E o \in Observers, token \in Tokens : Connect(o, token)
  \/ \E o \in Observers : Disconnect(o)
  \/ DebounceTimer

ScrollSpec == ScrollInit /\ [][ScrollNext]_vars

(***************************************************************************)
(* The Notifier class on its own, driven through its methods as the unit   *)
(* tests drive it, with and without a topic.                               *)
(***************************************************************************)
Notices == {<<TITLE_WAITING, BODY_WAITING>>, <<TITLE_FINISHED, BODY_FINISHED>>}

NotifierInit ==
  /\ SCROLLBACK_LIMIT = DEFAULT_SCROLLBACK
  /\ READONLY = FALSE
  /\ runtime = "running"
  /\ ptyProcess = NoPty
  /\ scrollbackBuffer = <<>>
  /\ waitingForInput = FALSE
  /\ shuttingDown = FALSE
  /\ accumulator = [lastCostData |-> NULL_DATA]
  /\ notifier \in {NewNotifier(NULL), NewNotifier("topic")}
  /\ timers = {}
  /\ sockets = NoSockets
  /\ serverClosing = FALSE
  /\ produced = <<>>
  /\ nlog = <<>>
  /\ ilog = <<>>
  /\ alog = <<>>
  /\ events = 0

\* a method call changes the Notifier, its timer and the history only
NotifierCall(s, call) ==
  /\ events < MaxCalls
  /\ notifier' = s.notifier
  /\ timers' = s.timers
  /\ nlog' = Append(nlog, call)
  /\ events' = events + 1
  /\ UNCHANGED <<SCROLLBACK_LIMIT, READONLY, ilog, alog, runtime, ptyProcess, scrollbackBuffer,
                 waitingForInput, shuttingDown, accumulator, sockets, serverClosing,
                 produced>>

Self == [notifier |-> notifier, timers |-> timers]

CallSchedule(title, body) ==
  NotifierCall(scheduleNotification(Self, title, body), Call("schedule", title, body))

CallCancel == NotifierCall(cancelPending(Self), Call("cancel", NULL, NULL))

CallSetEnabled(enabled) ==
  NotifierCall([Self EXCEPT !.notifier = setEnabled(notifier, enabled)],
               Call(IF enabled THEN "enable" ELSE "disable", NULL, NULL))

CallDestroy == NotifierCall(destroy(Self), Call("destroy", NULL, NULL))

CallSendImmediate(title, body) ==
  NotifierCall(Self, Call(IF sendImmediate(notifier, title, body) = "posted"
                            THEN "immediate" ELSE "immediate-skipped",
                          title, body))

NotifierNext ==
  \/ \E n \in Notices : CallSchedule(n[1], n[2])
  \/ CallCancel
  \/ \E enabled \in BOOLEAN : CallSetEnabled(enabled)
  \/ CallDestroy
  \/ \E n \in Notices : CallSendImmediate(n[1], n[2])
  \/ DebounceTimer

NotifierSpec == NotifierInit /\ [][NotifierNext]_vars


(***************************************************************************)
(* The OutputAccumulator class on its own, driven through append and reset *)
(* as the unit tests drive it.                                             *)
(***************************************************************************)
MaxAppends == 4

SessionChunk ==
  <<"S", "e", "s", "s", "i", "o", "n", " ", "c", "o", "s", "t", ":", " ",
    "$", "1", ".", "0", "0">>
SessionChunk2 ==
  <<"S", "e", "s", "s", "i", "o", "n", " ", "c", "o", "s", "t", ":", " ",
    "$", "2", ".", "0", "0">>
TokensChunk ==
  <<"T", "o", "t", "a", "l", " ", "t", "o", "k", "e", "n", "s", ":", " ",
    "5", ",", "0", "0", "0">>
RegularChunk ==
  <<"r", "e", "g", "u", "l", "a", "r", " ", "o", "u", "t", "p", "u", "t">>
SummaryChunk ==
  <<"T", "o", "t", "a", "l", " ", "c", "o", "s", "t", ":", " ", "$", "3",
    ".", "1", "0", LF, "T", "o", "t", "a", "l", " ", "t", "o", "k", "e", "n",
    "s", ":", " ", "7", ",", "2", "0", "0">>
AccChunks ==
  {SessionChunk, SessionChunk2, TokensChunk, CostChunk, SummaryChunk, RegularChunk}

AccInit ==
  /\ SCROLLBACK_LIMIT = DEFAULT_SCROLLBACK
  /\ READONLY = FALSE
  /\ runtime = "running"
  /\ ptyProcess = NoPty
  /\ scrollbackBuffer = <<>>
  /\ waitingForInput = FALSE
  /\ shuttingDown = FALSE
  /\ accumulator = [lastCostData |-> NULL_DATA]
  /\ notifier = NewNotifier("topic")
  /\ timers = {}
  /\ sockets = NoSockets
  /\ serverClosing = FALSE
  /\ produced = <<>>
  /\ nlog = <<>>
  /\ ilog = <<>>
  /\ alog = <<>>
  /\ events = 0

\* acc.append(data)
AccAppend(data) ==
  /\ events < MaxAppends
  /\ LET r == append(accumulator, data)
     IN  /\ accumulator' = r.acc
         /\ alog' = Append(alog, [data |-> data, result |-> r.result])
  /\ events' = events + 1
  /\ UNCHANGED <<SCROLLBACK_LIMIT, READONLY, ilog, runtime, ptyProcess, scrollbackBuffer,
                 waitingForInput, shuttingDown, notifier, timers, sockets,
                 serverClosing, produced, nlog>>

\* acc.reset()
AccReset ==
  /\ events < MaxAppends
  /\ accumulator' = reset(accumulator)
  /\ alog' = <<>>
  /\ events' = events + 1
  /\ UNCHANGED <<SCROLLBACK_LIMIT, READONLY, ilog, runtime, ptyProcess, scrollbackBuffer,
                 waitingForInput, shuttingDown, notifier, timers, sockets,
                 serverClosing, produced, nlog>>

AccNext ==
  \/ \E data \in AccChunks : AccAppend(data)
  \/ AccReset

AccSpec == AccInit /\ [][AccNext]_vars

(***************************************************************************)
(* The metrics broadcast: the server fed chunks with and without metric    *)
(* fields while observers attach and leave.                                *)
(***************************************************************************)
StatusInit == Boot({DEFAULT_SCROLLBACK}) /\ ~READONLY /\ runtime = "running"

StatusNext ==
  \/ \E data \in AccChunks : PtyData(data)
  \/ \E o \in Observers, token \in Tokens : Connect(o, token)
  \/ \E o \in Observers : Disconnect(o)
  \/ DebounceTimer

StatusSpec == StatusInit /\ [][StatusNext]_vars

(***************************************************************************)
(* The messages of observers: input, resize and request-status, between    *)
(* output with metrics, exits, restarts and a shutdown.                    *)
(***************************************************************************)
ObserverInit == Boot({DEFAULT_SCROLLBACK}) /\ runtime = "running"

ObserverNext ==
  \/ \E data \in {SessionChunk, TokensChunk, RegularChunk} : PtyData(data)
  \/ \E exitCode \in ExitCodes : PtyExit(exitCode)
  \/ RestartTimer
  \/ \E o \in Observers : Connect(o, AUTH_TOKEN)
  \/ \E o \in Observers : Disconnect(o)
  \/ \E o \in Observers, data \in InputData : Input(o, data)
  \/ \E o \in Observers, size \in Sizes : Resize(o, size)
  \/ \E o \in Observers : RequestStatus(o)
  \/ shutdown
  \/ DebounceTimer

ObserverSpec == ObserverInit /\ [][ObserverNext]_vars

(***************************************************************************)
(* Two attached observers typing while the process prints, exits and is    *)
(* restarted.                                                              *)
(***************************************************************************)
InputInit ==
  /\ SCROLLBACK_LIMIT = DEFAULT_SCROLLBACK
  /\ READONLY \in BOOLEAN
  /\ runtime = "running"
  /\ ptyProcess = Spawned
  /\ scrollbackBuffer = <<>>
  /\ waitingForInput = FALSE
  /\ shuttingDown = FALSE
  /\ accumulator = [lastCostData |-> NULL_DATA]
  /\ notifier = NewNotifier("topic")
  /\ timers = {}
  /\ sockets = [o \in Observers |-> [connected |-> TRUE, inbox |-> <<>>]]
  /\ serverClosing = FALSE
  /\ produced = <<>>
  /\ nlog = <<>>
  /\ ilog = <<>>
  /\ alog = <<>>
  /\ events = 0

InputNext ==
  \/ \E data \in {TinyChunk, PromptChunk} : PtyData(data)
  \/ \E o \in Observers, data \in InputData : Input(o, data)
  \/ \E exitCode \in ExitCodes : PtyExit(exitCode)
  \/ RestartTimer
  \/ DebounceTimer

InputSpec == InputInit /\ [][InputNext]_vars

(***************************************************************************)
(* The server with an alert sink that answers, rejects or is unreachable.  *)
(***************************************************************************)
DeliveryInit == Boot({DEFAULT_SCROLLBACK}) /\ ~READONLY /\ runtime = "running"

DeliveryNext ==
  \/ \E data \in {TinyChunk, PromptChunk, CostChunk} : PtyData(data)
  \/ \E exitCode \in ExitCodes : PtyExit(exitCode)
  \/ RestartTimer
  \/ \E o \in Observers : Connect(o, AUTH_TOKEN)
  \/ DebounceTimer
  \/ \E response \in SinkResponses : FetchSettles(response)

DeliverySpec == DeliveryInit /\ [][DeliveryNext]_vars

(***************************************************************************)
(* One observer with the token and one client without it: connections,     *)
(* socket messages and HTTP requests.                                      *)
(***************************************************************************)
Intruder == "s2"

\* the tokens the client may present: the intruder never has the server's
TokensOf(o) == IF o = Intruder THEN ClientTokens \ {AUTH_TOKEN} ELSE ClientTokens

AuthInit == Boot({DEFAULT_SCROLLBACK}) /\ ~READONLY /\ runtime = "running"

AuthNext ==
  \/ \E data \in {SessionChunk, TinyChunk} : PtyData(data)
  \/ \E o \in Observers : \E token \in TokensOf(o) : Connect(o, token)
  \/ \E o \in Observers : Disconnect(o)
  \/ \E o \in Observers, data \in InputData : Input(o, data)
  \/ \E o \in Observers : Resize(o, [given |-> TRUE, cols |-> Num(120), rows |-> Num(40)])
  \/ \E o \in Observers : RequestStatus(o)
  \/ \E path \in Paths, token \in ClientTokens \ {AUTH_TOKEN} : HttpGet(path, token)

AuthSpec == AuthInit /\ [][AuthNext]_vars

(***************************************************************************)
(* The prompt detection over chunks of every class: short and long,       *)
(* prompts, completions and other output, with input and a shutdown.       *)
(***************************************************************************)
ClassifyInit == Boot({DEFAULT_SCROLLBACK}) /\ ~READONLY /\ runtime = "running"

ClassifyNext ==
  \/ \E data \in ClassifyChunks : PtyData(data)
  \/ \E o \in Observers : Connect(o, AUTH_TOKEN)
  \/ \E o \in Observers : Input(o, <<"y", CR>>)
  \/ DebounceTimer
  \/ shutdown

ClassifySpec == ClassifyInit /\ [][ClassifyNext]_vars

(***************************************************************************)
(* Properties.                                                             *)
(***************************************************************************)
Suffix(s, n) == SubSeq(s, Len(s) - n + 1, Len(s))

DebounceTimers == {t \in timers : t.kind = "debounce"}

\* the step in which observer o is attached
Joins(o) == ~sockets[o].connected /\ sockets'[o].connected

Outputs(inbox) == SelectSeq(inbox, LAMBDA m : m.kind = "output")
Statuses(inbox) == SelectSeq(inbox, LAMBDA m : m.kind = "status-update")

\* C1: the scrollback buffer is never longer than the configured limit,
\* whatever the limit (0 included) and whatever chunks were appended.
C1_ScrollbackWithinLimit == Len(scrollbackBuffer) <= SCROLLBACK_LIMIT

\* C2: the scrollback buffer is the suffix, of length min(L, total), of the
\* concatenation of the chunks appended since it was last cleared.
C2_ScrollbackIsSuffix ==
  scrollbackBuffer = Suffix(produced, Min(SCROLLBACK_LIMIT, Len(produced)))

\* C3: an observer that attaches gets the whole scrollback buffer as one
\* output payload when the buffer is not empty and no output payload when it
\* is empty; the payload is all earlier chunks in order when they fit the
\* limit; no other observer receives anything.
C3_CatchUpOnAttach ==
  [][\A o \in Observers :
       Joins(o) =>
         /\ Outputs(sockets'[o].inbox) =
              IF scrollbackBuffer # <<>> THEN <<Msg("output", scrollbackBuffer)>> ELSE <<>>
         /\ Len(produced) <= SCROLLBACK_LIMIT => scrollbackBuffer = produced
         /\ \A p \in Observers \ {o} : sockets'[p] = sockets[p]]_vars

\* two chunks were produced, then an observer attached next to another one
C3_Witness ==
  \E o \in Observers, p \in Observers :
    /\ o # p
    /\ sockets[p].connected
    /\ sockets[o].inbox = <<Msg("output", TinyChunk \o PairChunk)>>
    /\ sockets[p].inbox # sockets[o].inbox

\* C4: an observer that attaches gets one status-update with the
\* accumulator's last snapshot if that snapshot is not null, and no
\* status-update if it is null.
C4_StatusOnAttach ==
  [][\A o \in Observers :
       Joins(o) =>
         Statuses(sockets'[o].inbox) =
           IF accumulator.lastCostData # NULL_DATA
             THEN <<Msg("status-update", accumulator.lastCostData)>>
             ELSE <<>>]_vars

\* an observer attached after a cost chunk and holds only the catch-up
C4_Witness ==
  \E o \in Observers :
    /\ sockets[o].connected
    /\ sockets[o].inbox =
         <<Msg("output", CostChunk),
           Msg("status-update", [totalCost |-> <<"2", ".", "5", "0">>])>>

\* C5: in read-only mode nothing an observer sends is written to the
\* supervised process, and the sender is sent the rejection notice.
C5_ReadOnlyGate ==
  /\ [](READONLY => ptyProcess.written = <<>>)
  /\ [][\A o \in Observers, data \in InputData :
          (READONLY /\ Input(o, data)) =>
            /\ sockets'[o].inbox = Append(sockets[o].inbox, Msg("output", READONLY_NOTICE))
            /\ \A p \in Observers \ {o} : sockets'[p] = sockets[p]
            /\ ptyProcess' = ptyProcess]_vars

\* an observer sent input to a live process in read-only mode
C5_Witness ==
  /\ READONLY
  /\ ptyProcess.alive
  /\ \E o \in Observers :
       /\ sockets[o].inbox # <<>>
       /\ sockets[o].inbox[Len(sockets[o].inbox)] = Msg("output", READONLY_NOTICE)


(***************************************************************************)
(* The Notifier's history: nlog[k] is a call or the firing of the timer.   *)
(***************************************************************************)
\* the firings of the debounce timer
Fires == {k \in 1..Len(nlog) : nlog[k].ev \in {"dispatch", "skipped"}}

Destroyed(k) == \E j \in 1..(k - 1) : nlog[j].ev = "destroy"

\* the scheduleNotification calls made while enabled and not destroyed
Arms == {i \in 1..Len(nlog) : nlog[i].ev = "schedule" /\ nlog[i].en /\ ~Destroyed(i)}

\* the latest such call before position k, 0 when there is none
LastArm(k) ==
  LET before == {i \in Arms : i < k}
  IN  IF before = {} THEN 0 ELSE CHOOSE i \in before : \A j \in before : j <= i

\* C6: a scheduleNotification call made while another is pending replaces
\* it: the timer fires once for the two calls, with the title and body of
\* the second, and dispatches when the notifier is enabled; a call is not
\* lost either: once no timer is armed every call has fired, was replaced
\* or was cancelled.
C6_DebounceKeepsLatest ==
  /\ \A k \in Fires :
       LET a == LastArm(k)
       IN  /\ a # 0
           /\ nlog[k].title = nlog[a].title
           /\ nlog[k].body = nlog[a].body
           /\ \A j \in (a + 1)..(k - 1) : j \notin Fires
           /\ nlog[k].en => nlog[k].ev = "dispatch"
  /\ DebounceTimers = {} =>
       \A a \in Arms : \E j \in (a + 1)..Len(nlog) :
         j \in Fires \cup Arms \/ nlog[j].ev \in {"cancel", "destroy"}

\* two calls in a row, then the one dispatch, of the second call
C6_Witness ==
  /\ Len(nlog) = 3
  /\ nlog[1] = [ev |-> "schedule", title |-> TITLE_WAITING, body |-> BODY_WAITING, en |-> TRUE]
  /\ nlog[2] = [ev |-> "schedule", title |-> TITLE_FINISHED, body |-> BODY_FINISHED, en |-> TRUE]
  /\ nlog[3] = [ev |-> "dispatch", title |-> TITLE_FINISHED, body |-> BODY_FINISHED, en |-> TRUE]
  /\ DebounceTimers = {}

\* C7: after cancelPending the cancelled call is never dispatched and the
\* notifier is idle, and it stays idle, with no timer armed, until
\* scheduleNotification is called again.
C7_CancelStopsDispatch ==
  /\ [](\A k \in Fires : \A j \in (LastArm(k) + 1)..(k - 1) :
          nlog[j].ev \notin {"cancel", "destroy"})
  /\ [](~isPending(notifier) => DebounceTimers = {})
  /\ [][CallCancel => ~isPending(notifier')]_vars
  /\ [][(~isPending(notifier) /\ isPending(notifier')) =>
          \E n \in Notices : CallSchedule(n[1], n[2])]_vars

\* a pending call was cancelled and two more calls were made: still idle
C7_Witness ==
  /\ Len(nlog) >= 4
  /\ nlog[1].ev = "schedule" /\ nlog[1].en
  /\ nlog[2].ev = "cancel"
  /\ Fires = {}
  /\ ~isPending(notifier)

\* C8: scheduleNotification on a disabled notifier changes nothing: no
\* timer is armed and an idle notifier stays idle; a notifier built without
\* a topic and never enabled is never pending and never fires.
C8_DisabledNeverArms ==
  /\ [][\A n \in Notices :
          (~notifier.enabled /\ CallSchedule(n[1], n[2])) =>
            (notifier' = notifier /\ timers' = timers)]_vars
  /\ []((notifier.topic = NULL /\ \A k \in 1..Len(nlog) : nlog[k].ev # "enable") =>
          (~isPending(notifier) /\ Fires = {}))

\* scheduleNotification was called after setEnabled(false): idle
C8_Witness ==
  /\ notifier.topic # NULL
  /\ ~notifier.enabled
  /\ nlog # <<>>
  /\ nlog[Len(nlog)].ev = "schedule"
  /\ ~nlog[Len(nlog)].en
  /\ ~isPending(notifier)

\* C9: at most one debounce timer is armed, isPending() is true exactly
\* when it is, and the firing of the timer, cancelPending and destroy each
\* leave the notifier idle.
C9_OneTimer ==
  /\ [](/\ Cardinality(DebounceTimers) <= 1
        /\ isPending(notifier) <=> DebounceTimers # {}
        /\ \A t \in DebounceTimers : t.id = notifier.pendingTimer)
  /\ [][(DebounceTimer \/ CallCancel \/ CallDestroy) => ~isPending(notifier')]_vars

\* the timer fired once and was armed again
C9_Witness ==
  /\ Fires # {}
  /\ isPending(notifier)
  /\ Cardinality(DebounceTimers) = 1

\* C10: once shutdown was requested the notifier is idle with no timer
\* armed, and nothing is dispatched after the destroy() of the shutdown,
\* whatever the supervised process still emits.
C10_NoAlertAfterShutdown ==
  shuttingDown =>
    /\ ~isPending(notifier)
    /\ DebounceTimers = {}
    /\ \A k \in 1..Len(nlog) : nlog[k].ev = "dispatch" => ~Destroyed(k)

\* a pending alert at the shutdown, and a prompt chunk after it
C10_Witness ==
  /\ shuttingDown
  /\ Len(nlog) = 3
  /\ nlog[1].ev = "schedule"
  /\ nlog[2].ev = "destroy"
  /\ nlog[3].ev = "schedule"
  /\ ptyProcess.alive

(***************************************************************************)
(* The lifecycle of the supervised process.                                *)
(***************************************************************************)
\* the step in which a process is spawned in place of one that exited
Respawns == ~ptyProcess.alive /\ ptyProcess'.alive

\* the positions of nlog that hold event ev
Events(ev) == {k \in 1..Len(nlog) : nlog[k].ev = ev}

\* C11: when the restart timer spawns the next process the scrollback
\* buffer is empty and the accumulator's snapshot is null, and an observer
\* that attaches before the new process has produced a chunk is sent
\* nothing.
C11_FreshAfterRestart ==
  /\ [][Respawns =>
          /\ scrollbackBuffer' = <<>>
          /\ getLastCostData(accumulator') = NULL_DATA]_vars
  /\ [][\A o \in Observers :
          (Joins(o) /\ alog = <<>>) => sockets'[o].inbox = <<>>]_vars

\* a cost chunk, the exit, the restart, and then an observer attached
C11_Witness ==
  /\ ptyProcess.alive
  /\ \E i \in Events("schedule"), j \in Events("exit"), k \in Events("spawn") :
       i < j /\ j < k /\ nlog[i].title = TITLE_FINISHED
  /\ \E o \in Observers : sockets[o].connected /\ sockets[o].inbox = <<>>

\* C12: once shutdown was requested spawnPty is not called again: no step
\* spawns a process or fails to spawn one, and a restart timer that fires
\* leaves the process, the runtime and the observers as they are.
C12_NoSpawnAfterShutdown ==
  /\ [][shuttingDown =>
          /\ ~Respawns
          /\ Events("spawn")' = Events("spawn")
          /\ Events("spawn-failed")' = Events("spawn-failed")]_vars
  /\ [][(shuttingDown /\ RestartTimer) =>
          UNCHANGED <<ptyProcess, runtime, sockets>>]_vars
  /\ [](\A k \in Events("spawn") \cup Events("spawn-failed") : ~Destroyed(k))

\* the shutdown came during the restart delay and the timer fired after it
C12_Witness ==
  /\ shuttingDown
  /\ \E i \in Events("exit"), j \in Events("destroy"), k \in Events("restart-skipped") :
       i < j /\ j < k
  /\ ~ptyProcess.alive

\* the processes spawned and not yet exited; the first one was spawned at
\* startup when ptyProcess holds a handle
Live ==
  (IF ptyProcess.exists THEN 1 ELSE 0)
    + Cardinality(Events("spawn")) - Cardinality(Events("exit"))

RestartTimers == {t \in timers : t.kind = "restart"}

\* C13: at most one supervised process is live, and it is the one
\* ptyProcess holds; a process is spawned only by a restart timer, of which
\* at most one is armed and only while no process is live.
C13_OneLiveProcess ==
  /\ [](/\ Live \in {0, 1}
        /\ Live = 1 <=> ptyProcess.alive
        /\ Cardinality(RestartTimers) <= 1
        /\ RestartTimers # {} => Live = 0)
  /\ [][Events("spawn")' # Events("spawn") =>
          /\ RestartTimer
          /\ RestartTimers # {}
          /\ Live = 0]_vars

\* the process exited twice and was spawned again twice
C13_Witness ==
  /\ Cardinality(Events("spawn")) = 2
  /\ Cardinality(Events("exit")) = 2
  /\ ptyProcess.alive

\* C14: the n-th exit of the supervised process, when no shutdown was
\* requested, leads to the n-th call of spawnPty by the restart timer (a
\* new process, or the fatal failure of pty.spawn) unless a shutdown is
\* requested first; this holds for every n the run reaches.
C14_ExitLeadsToSpawn ==
  \A n \in 1..MaxEvents :
    (Cardinality(Events("exit")) = n /\ RestartTimers # {} /\ ~shuttingDown)
      ~> \/ Cardinality(Events("spawn") \cup Events("spawn-failed")) = n
         \/ shuttingDown

\* the process exited three times and was spawned again each time
C14_Witness ==
  /\ Cardinality(Events("exit")) = 3
  /\ Cardinality(Events("spawn")) = 3
  /\ ~shuttingDown
  /\ ptyProcess.alive

\* C14 as stated: the n-th exit, when no shutdown was requested, leads to
\* the n-th new process unless a shutdown is requested first.
C14_ExitLeadsToProcess ==
  \A n \in 1..MaxEvents :
    (Cardinality(Events("exit")) = n /\ RestartTimers # {} /\ ~shuttingDown)
      ~> \/ Cardinality(Events("spawn")) = n
         \/ shuttingDown

IsOtherOutput(data) == ~isPromptWaiting(data) /\ ~isGenerationComplete(data)

\* text of more than 30 characters once cleaned and trimmed
IsSubstantial(data) == Len(Trim(stripAnsi(data))) > 30

\* the step in which the onData handler takes the chunk
Handles(data) == Len(alog') = Len(alog) + 1 /\ alog'[Len(alog')].data = data

\* the chunk arrives while a notification is pending
ArrivesWhilePending(data) == isPending(notifier) /\ Handles(data)

\* the chunk left the notifier idle with no timer armed, and the call it
\* cancelled is never dispatched
Cancelled == ~isPending(notifier') /\ DebounceTimers' = {}

Fields(k) == parseCostData(alog[k].data)

Snapshot == getLastCostData(accumulator)

\* C17: when chunk B is appended after chunk A and yields a field, the
\* value append returns for B is the accumulator's snapshot, it has B's
\* value for every field of B and A's value for every field only A has,
\* and after exactly these two appends it has no other field.
C17_MergeKeepsBoth ==
  \A k \in 2..Len(alog) :
    LET A == Fields(k - 1)
        B == Fields(k)
        merged == alog[k].result
    IN  B # NULL_DATA =>
          /\ \A f \in DOMAIN B : f \in DOMAIN merged /\ merged[f] = B[f]
          /\ \A f \in (DOMAIN A) \ (DOMAIN B) : f \in DOMAIN merged /\ merged[f] = A[f]
          /\ k = Len(alog) => merged = Snapshot
          /\ k = 2 => DOMAIN merged = (DOMAIN A) \cup (DOMAIN B)

\* 'Session cost: $1.00' then 'Total tokens: 5,000': both fields returned
C17_Witness ==
  /\ Len(alog) = 2
  /\ alog[1].data = SessionChunk
  /\ alog[2].data = TokensChunk
  /\ alog[2].result =
       [sessionCost |-> <<"1", ".", "0", "0">>, totalTokens |-> <<"5", ",", "0", "0", "0">>]

\* the chunks of the history that yield field f
Yielding(f) == {k \in 1..Len(alog) : f \in DOMAIN Fields(k)}

\* C18: between resets the snapshot holds exactly the fields observed so
\* far, each with the value of the latest chunk that yielded it; a chunk
\* that yields no field returns null and leaves the snapshot as it is; a
\* field leaves the snapshot only by reset().
C18_SnapshotOnlyGrows ==
  /\ [](\A f \in CostFields :
          IF Yielding(f) = {}
            THEN f \notin DOMAIN Snapshot
            ELSE LET last == CHOOSE k \in Yielding(f) : \A j \in Yielding(f) : j <= k
                 IN  f \in DOMAIN Snapshot /\ Snapshot[f] = Fields(last)[f])
  /\ [](\A k \in 1..Len(alog) : Fields(k) = NULL_DATA <=> alog[k].result = NULL_DATA)
  /\ [][\A data \in AccChunks :
          (Handles(data) /\ parseCostData(data) = NULL_DATA) => Snapshot' = Snapshot]_vars
  /\ [][~((DOMAIN Snapshot) \subseteq (DOMAIN Snapshot')) => AccReset]_vars

\* a field observed, a chunk without fields, a second field, and the first
\* field observed again with a new value
C18_Witness ==
  /\ Len(alog) = 4
  /\ alog[1].data = SessionChunk
  /\ alog[2].data = RegularChunk
  /\ alog[3].data = TokensChunk
  /\ alog[4].data = SessionChunk2
  /\ Snapshot =
       [sessionCost |-> <<"2", ".", "0", "0">>, totalTokens |-> <<"5", ",", "0", "0", "0">>]

\* the snapshot already has the chunk's value for every field of the chunk
AlreadyMerged(data) ==
  LET B == parseCostData(data)
  IN  \A f \in DOMAIN B : f \in DOMAIN Snapshot /\ Snapshot[f] = B[f]

\* C19: appending again a chunk whose fields are already merged with the
\* same values, in particular the chunk appended last, leaves the snapshot
\* as it is, and what append returns for it is that same snapshot.
C19_ReappendIdempotent ==
  [][\A data \in AccChunks :
       (Handles(data) /\ (AlreadyMerged(data) \/ (alog # <<>> /\ alog[Len(alog)].data = data))) =>
         /\ Snapshot' = Snapshot
         /\ parseCostData(data) # NULL_DATA => alog'[Len(alog')].result = Snapshot]_vars

\* two fields merged, then the first chunk appended twice in a row
C19_Witness ==
  /\ Len(alog) = 4
  /\ alog[1].data = TokensChunk
  /\ alog[2].data = CostChunk
  /\ alog[3].data = TokensChunk
  /\ alog[4].data = TokensChunk
  /\ alog[4].result = alog[3].result
  /\ alog[4].result = alog[2].result

\* C20: the onData handler sends every connected observer the chunk and,
\* if and only if the chunk yields a metric field, one status-update after
\* it, whose payload is the accumulator's merged snapshot after the chunk;
\* observers that are not connected are sent nothing.
C20_StatusBroadcast ==
  [][\A data \in AccChunks :
       Handles(data) =>
         \A o \in Observers :
           sockets'[o].inbox =
             IF sockets[o].connected
               THEN sockets[o].inbox \o <<Msg("output", data)>> \o
                      (IF parseCostData(data) # NULL_DATA
                         THEN <<Msg("status-update", Snapshot')>>
                         ELSE <<>>)
               ELSE sockets[o].inbox]_vars

\* an observer saw a session cost, other output and a token count: two
\* status-updates, the second with both fields; the other observer, not
\* connected, was sent nothing
C20_Witness ==
  \E o \in Observers :
    /\ \A p \in Observers \ {o} : ~sockets[p].connected /\ sockets[p].inbox = <<>>
    /\ sockets[o].inbox =
         <<Msg("output", SessionChunk),
           Msg("status-update", [sessionCost |-> <<"1", ".", "0", "0">>]),
           Msg("output", RegularChunk),
           Msg("output", TokensChunk),
           Msg("status-update",
               [sessionCost |-> <<"1", ".", "0", "0">>,
                totalTokens |-> <<"5", ",", "0", "0", "0">>])>>

(***************************************************************************)
(* The messages of observers.                                              *)
(***************************************************************************)
\* the step handles a message of the kind from the observer
Receives(ev, o) ==
  /\ Len(ilog') = Len(ilog) + 1
  /\ ilog'[Len(ilog')].ev = ev
  /\ ilog'[Len(ilog')].from = o

\* the messages of the kind received so far
ReceivedOf(ev) == {k \in 1..Len(ilog) : ilog[k].ev = ev}

\* C21: handling a request-status message sends the sender, and nobody
\* else, one status-update with the accumulator's current snapshot when it
\* is not null and nothing when it is null; no chunk is handled in the step
\* and nothing else of the server changes.
C21_RequestStatusReplies ==
  [][\A o \in Observers :
       Receives("request-status", o) =>
         /\ sockets'[o].connected
         /\ sockets'[o].inbox =
              IF Snapshot # NULL_DATA
                THEN Append(sockets[o].inbox, Msg("status-update", Snapshot))
                ELSE sockets[o].inbox
         /\ \A p \in Observers \ {o} : sockets'[p] = sockets[p]
         /\ UNCHANGED <<SCROLLBACK_LIMIT, READONLY, runtime, ptyProcess, scrollbackBuffer,
                        waitingForInput, shuttingDown, accumulator, notifier, timers,
                        serverClosing, produced, nlog, alog>>]_vars

\* an observer asked before any metric was seen and was sent nothing, then
\* a session cost arrived and the observer asked again: the broadcast
\* status-update and one more
C21_Witness ==
  \E o \in Observers :
    /\ Len(ilog) = 2
    /\ \A k \in 1..2 : ilog[k].ev = "request-status" /\ ilog[k].from = o
    /\ Len(alog) = 1
    /\ sockets[o].inbox =
         <<Msg("output", SessionChunk),
           Msg("status-update", [sessionCost |-> <<"1", ".", "0", "0">>]),
           Msg("status-update", [sessionCost |-> <<"1", ".", "0", "0">>])>>

\* the step handles a resize message with the payload
Resizes(size) ==
  /\ \E o \in Observers : Receives("resize", o)
  /\ ilog'[Len(ilog')].data = size

\* both dimensions are numbers greater than 0
Positive(size) == size.given /\ size.cols.defined /\ size.rows.defined
                  /\ size.cols.n > 0 /\ size.rows.n > 0

Geometry == <<ptyProcess.cols, ptyProcess.rows>>

\* the process exists, has not exited and was not killed
Resizable == ptyProcess.exists /\ ptyProcess.alive /\ ~ptyProcess.killed

\* C22: a resize whose cols or rows is missing, null, zero or negative
\* leaves the geometry of the process unchanged; a resize with both
\* dimensions positive sets the geometry of a live process to exactly them.
C22_NonPositiveResizeIgnored ==
  [][\A size \in Sizes :
       Resizes(size) =>
         IF Positive(size)
           THEN Resizable => Geometry' = <<size.cols.n, size.rows.n>>
           ELSE Geometry' = Geometry]_vars

\* what the handler does: a missing, null or zero dimension leaves the
\* geometry unchanged, every other pair of numbers is applied to a live
\* process with each dimension raised to at least 1
ResizeAsCoded ==
  [][\A size \in Sizes :
       Resizes(size) =>
         IF size.given /\ Truthy(size.cols) /\ Truthy(size.rows) /\ Resizable
           THEN Geometry' = <<Max(1, size.cols.n), Max(1, size.rows.n)>>
           ELSE Geometry' = Geometry]_vars

(***************************************************************************)
(* Order of output and input.                                              *)
(***************************************************************************)
RECURSIVE Concat(_)
Concat(ss) == IF Len(ss) = 0 THEN <<>> ELSE Head(ss) \o Concat(Tail(ss))

\* the payloads of a sequence of messages or history records
Payloads(ms) == [k \in 1..Len(ms) |-> ms[k].data]

IsProcessOutput(m) ==
  m.kind = "output" /\ m.data \notin {RESTART_NOTICE, READONLY_NOTICE}

\* the position of the last pty-exit in the inbox, 0 if there is none
LastExit(inbox) ==
  LET ks == {k \in 1..Len(inbox) : inbox[k].kind = "pty-exit"}
  IN  IF ks = {} THEN 0 ELSE CHOOSE k \in ks : \A j \in ks : j <= k

\* the output of the process the observer was sent since the last exit it
\* saw, the catch-up replay included
CurrentOutput(o) ==
  LET inbox == sockets[o].inbox
  IN  Concat(Payloads(SelectSeq(SubSeq(inbox, LastExit(inbox) + 1, Len(inbox)),
                                IsProcessOutput)))

\* C23: a chunk is handled in one step, in which every connected observer
\* is sent it after everything sent before, the scrollback buffer gets it
\* at its end, the accumulator merges it and the notifier has classified
\* it; so the scrollback buffer and what each attached observer holds of
\* the current process are the chunks in the order the process produced
\* them.
C23_ChunksInOrder ==
  /\ [][\A data \in Chunks :
          Handles(data) =>
            /\ \A o \in Observers :
                 sockets[o].connected =>
                   /\ Len(sockets'[o].inbox) > Len(sockets[o].inbox)
                   /\ SubSeq(sockets'[o].inbox, 1, Len(sockets[o].inbox) + 1) =
                        Append(sockets[o].inbox, Msg("output", data))
            /\ scrollbackBuffer' = scrollbackBuffer \o data
            /\ accumulator' = append(accumulator, data).acc
            /\ LET det == Detect(data, [notifier |-> notifier, timers |-> timers])
               IN  /\ waitingForInput' = det.waiting
                   /\ notifier' = det.s.notifier
                   /\ timers' = det.s.timers]_vars
  /\ [](/\ produced = Concat(Payloads(alog))
        /\ scrollbackBuffer = produced
        /\ \A o \in Observers :
             (sockets[o].connected /\ (~shuttingDown \/ LastExit(sockets[o].inbox) = 0))
               => CurrentOutput(o) = produced)

\* an attached observer was sent three different chunks in the order the
\* process produced them, and the scrollback buffer holds them in that
\* order
C23_Witness ==
  \E o \in Observers :
    /\ sockets[o].connected
    /\ sockets[o].inbox =
         <<Msg("output", PairChunk), Msg("output", TinyChunk), Msg("output", ShortChunk)>>
    /\ scrollbackBuffer = PairChunk \o TinyChunk \o ShortChunk
    /\ Payloads(alog) = <<PairChunk, TinyChunk, ShortChunk>>

\* the inputs written to the process ptyProcess holds, as received
WrittenInputs ==
  SelectSeq(ilog, LAMBDA e : e.ev = "input" /\ e.written /\ e.generation = Generation)

\* the inputs of the observer among them
InputsOf(o, es) == SelectSeq(es, LAMBDA e : e.from = o)

\* C24: when not read-only, what has been written to the supervised
\* process is the inputs in the order the server received them, each
\* input being put after everything written before; so the inputs of one
\* observer are written in the order the observer sent them, whatever
\* chunks and inputs of other observers come between.
C24_InputsInOrder ==
  /\ [][\A o \in Observers, data \in InputData :
          (~READONLY /\ Receives("input", o) /\ ilog'[Len(ilog')].data = data) =>
            ptyProcess'.written =
              IF ptyProcess.exists /\ ~ptyProcess.killed
                THEN Append(ptyProcess.written, data)
                ELSE ptyProcess.written]_vars
  /\ [](~READONLY => ptyProcess.written = Payloads(WrittenInputs))

\* one observer typed y, a chunk arrived, the other observer typed y and
\* the first one n: the process was written y, y, n
C24_Witness ==
  \E o \in Observers : \E p \in Observers \ {o} :
    /\ ~READONLY
    /\ Len(alog) = 1
    /\ Payloads(InputsOf(o, WrittenInputs)) = <<<<"y", CR>>, <<"n", CR>>>>
    /\ Payloads(InputsOf(p, WrittenInputs)) = <<<<"y", CR>>>>
    /\ ilog[2].from = p
    /\ ptyProcess.written = <<<<"y", CR>>, <<"y", CR>>, <<"n", CR>>>>

(***************************************************************************)
(* Exits, spawn failures and stopping.                                     *)
(***************************************************************************)
\* the step is an exit of the supervised process
Exits == Len(nlog') = Len(nlog) + 1 /\ nlog'[Len(nlog')].ev = "exit"

IsExitEvent(m, exitCode, signal) ==
  m.kind = "pty-exit" /\ m.data = <<exitCode, signal>>

\* C25: every exit of the supervised process, whatever its exit code and
\* signal and whether or not a shutdown was requested, sends every
\* connected observer exactly one pty-exit with that exit code and signal,
\* and sends the others nothing.
C25_ExitBroadcast ==
  [][Exits =>
       \E exitCode \in ExitCodes, signal \in Signals :
         /\ PtyExit(exitCode)
         /\ \A o \in Observers :
              sockets'[o].inbox =
                IF sockets[o].connected
                  THEN Append(sockets[o].inbox, Msg("pty-exit", <<exitCode, signal>>))
                  ELSE sockets[o].inbox]_vars

\* an observer saw the process exit with code 0, the restart, and after a
\* shutdown request the new process exit with code 1 on signal 15
C25_Witness ==
  \E o \in Observers :
    /\ shuttingDown
    /\ sockets[o].connected
    /\ Len(sockets[o].inbox) = 3
    /\ IsExitEvent(sockets[o].inbox[1], 0, 0)
    /\ sockets[o].inbox[2].kind = "output"
    /\ sockets[o].inbox[2].data = RESTART_NOTICE
    /\ IsExitEvent(sockets[o].inbox[3], 1, 15)

\* a call of pty.spawn has thrown: the one at startup, after which no
\* handle exists, or one made by the restart timer
SpawnFailed == ~ptyProcess.exists \/ Events("spawn-failed") # {}

\* C26: once a spawn has failed, at startup or at a restart, the server
\* has ended with exit code 1: no restart timer is armed, no process is
\* live to deliver data or an exit, no spawn is attempted after the failed
\* one, and nothing happens any more.
C26_SpawnFailureFatal ==
  /\ [](SpawnFailed =>
          /\ runtime = "exit1"
          /\ RestartTimers = {}
          /\ ~ptyProcess.alive
          /\ \A k \in Events("spawn-failed") :
               \A j \in (k + 1)..Len(nlog) : nlog[j].ev \notin {"spawn", "spawn-failed"})
  /\ [][runtime = "running"]_vars

\* the process exited and the spawn made by the restart timer failed, seen
\* by an attached observer whose last message is the restart notice
C26_Witness ==
  /\ Events("spawn-failed") = {Len(nlog)}
  /\ runtime = "exit1"
  /\ \E o \in Observers :
       /\ sockets[o].connected
       /\ Len(sockets[o].inbox) = 2
       /\ sockets[o].inbox[1].kind = "pty-exit"
       /\ sockets[o].inbox[2].kind = "output"
       /\ sockets[o].inbox[2].data = RESTART_NOTICE

(***************************************************************************)
(* Delivery of alerts.                                                     *)
(***************************************************************************)
\* the step settles the POST of a dispatch
Settles == Len(nlog') = Len(nlog) + 1 /\ nlog'[Len(nlog')].ev = "settled"

\* the settled POSTs that failed
FailedDeliveries ==
  {j \in 1..Len(nlog) : nlog[j].ev = "settled" /\ ~nlog[j].result.sent}

\* C27: a POST that fails, on a network error or a response that is not
\* ok, settles to the value {sent: false, reason} with the sink's text as
\* the reason and changes nothing of the server: the runtime keeps
\* running, the notifier, which went idle when its timer fired, keeps its
\* state, and buffer, observers, process and timers are as before, so
\* chunks, broadcasts and restarts go on.
C27_DeliveryFailureContained ==
  /\ [][Settles =>
          /\ \E response \in SinkResponses :
               nlog'[Len(nlog')].result =
                 IF response.kind = "ok"
                   THEN [sent |-> TRUE, reason |-> NULL]
                   ELSE [sent |-> FALSE, reason |-> response.text]
          /\ UNCHANGED <<runtime, ptyProcess, scrollbackBuffer, waitingForInput,
                         shuttingDown, accumulator, notifier, timers, sockets,
                         serverClosing>>]_vars
  /\ [][(Len(nlog') = Len(nlog) + 1 /\ nlog'[Len(nlog')].ev \in {"dispatch", "skipped"})
          => ~isPending(notifier')]_vars
  /\ [](FailedDeliveries # {} => runtime # "exit1" \/ Events("spawn-failed") # {})

\* the alert for a prompt failed on a network error; afterwards a cost
\* chunk was handled and broadcast to the attached observer, and its
\* alert was scheduled and dispatched
C27_Witness ==
  \E j \in FailedDeliveries :
    /\ nlog[j].result = [sent |-> FALSE, reason |-> "Network down"]
    /\ nlog[j].title = TITLE_WAITING
    /\ \E k \in (j + 1)..(Len(nlog) - 1) :
         /\ nlog[k].ev = "schedule"
         /\ nlog[Len(nlog)].ev = "dispatch"
         /\ nlog[Len(nlog)].title = TITLE_FINISHED
    /\ runtime = "running"
    /\ \E o \in Observers :
         /\ sockets[o].connected
         /\ Len(sockets[o].inbox) >= 2
         /\ sockets[o].inbox[1].kind = "output"
         /\ sockets[o].inbox[1].data = PromptChunk
         /\ sockets[o].inbox[2].kind = "output"
         /\ sockets[o].inbox[2].data = CostChunk

\* the step appends an event of one of the kinds to the Notifier's history
Logs(evs) == Len(nlog') = Len(nlog) + 1 /\ nlog'[Len(nlog')].ev \in evs

\* C28: setEnabled(false) leaves an armed timer armed and the scheduler
\* pending; when the timer fires while the notifier is disabled the
\* scheduler goes idle, the dispatch is skipped with the outcome
\* "disabled" and nothing is handed to the alert sink.
C28_DisableKeepsTimer ==
  /\ [][Logs({"disable"}) =>
          /\ ~notifier'.enabled
          /\ notifier'.pendingTimer = notifier.pendingTimer
          /\ timers' = timers]_vars
  /\ [][(Logs({"dispatch", "skipped"}) /\ ~notifier.enabled) =>
          /\ nlog'[Len(nlog')].ev = "skipped"
          /\ sendImmediate(notifier', nlog'[Len(nlog')].title, nlog'[Len(nlog')].body)
               = "disabled"
          /\ InFlight' = InFlight
          /\ ~isPending(notifier')]_vars

\* a notification was scheduled, the notifier was disabled while the timer
\* was armed, and the timer fired: the dispatch was skipped
C28_Witness ==
  /\ Len(nlog) = 3
  /\ nlog[1].ev = "schedule"
  /\ nlog[2].ev = "disable"
  /\ nlog[3].ev = "skipped"
  /\ nlog[3].title = nlog[1].title
  /\ ~isPending(notifier)
  /\ InFlight = {}

ForceTimers == {t \in timers : t.kind = "force"}

\* the state a shutdown request leaves: restarts are off, the notifier is
\* destroyed and idle, the process handle is killed, the server is closing
\* and a deadline is armed
Stopped ==
  /\ shuttingDown
  /\ notifier.destroyed
  /\ ~isPending(notifier)
  /\ DebounceTimers = {}
  /\ ptyProcess.exists => ptyProcess.killed
  /\ serverClosing
  /\ ForceTimers # {}

\* C29: cancelPending on an idle scheduler changes neither the notifier
\* nor the timers; every shutdown request, with a live process, with one
\* that has exited or after an earlier request, leaves the stopped state,
\* which lasts; a repeated request changes nothing of it and keeps the
\* deadline of the first request, adding only a later deadline of its own.
C29_CancelAndStopIdempotent ==
  /\ [][(Logs({"cancel"}) /\ ~isPending(notifier)) =>
          notifier' = notifier /\ timers' = timers]_vars
  /\ [][Logs({"destroy"}) => Stopped' /\ runtime' = "running"]_vars
  /\ [][(Logs({"destroy"}) /\ shuttingDown) =>
          /\ UNCHANGED <<runtime, ptyProcess, scrollbackBuffer, waitingForInput,
                         shuttingDown, accumulator, notifier, sockets, serverClosing>>
          /\ timers \subseteq timers'
          /\ \A t \in timers' \ timers : t.kind = "force"]_vars
  /\ [](shuttingDown => Stopped)

\* the process exited, then shutdown was requested twice during the
\* restart delay, and the restart timer fired without spawning
C29_Witness ==
  /\ Cardinality(Events("destroy")) = 2
  /\ \E k \in Events("exit") : \A j \in Events("destroy") : k < j
  /\ Events("restart-skipped") # {}
  /\ Events("spawn") = {}
  /\ ~ptyProcess.alive
  /\ Stopped
  /\ runtime = "running"

\* C30: after a shutdown request the runtime eventually ends, with exit
\* code 0 when the server has closed or with exit code 1 when the deadline
\* timer fires, whether or not the process exits and the observers leave.
C30_ShutdownTerminates == shuttingDown ~> runtime \in {"exit0", "exit1"}

\* the deadline ended the runtime while the killed process had not exited
\* and an observer was still connected
C30_Witness ==
  /\ shuttingDown
  /\ runtime = "exit1"
  /\ Events("spawn-failed") = {}
  /\ ptyProcess.alive
  /\ \E o \in Observers : sockets[o].connected

(***************************************************************************)
(* Prompt, answer, completion, alert.                                      *)
(***************************************************************************)
\* the kinds of the events of the Notifier's history, in order
Kinds == [k \in 1..Len(nlog) |-> nlog[k].ev]

\* a prompt arrived, an observer answered it, the completion with the cost
\* arrived, in this order, when not read-only and with the notifier on
PromptAnswerCompletion ==
  /\ ~READONLY
  /\ Len(alog) = 2
  /\ alog[1].data = PromptChunk
  /\ alog[2].data = CostChunk
  /\ Len(ilog) = 1
  /\ ilog[1].ev = "input"
  /\ Len(nlog) >= 3
  /\ SubSeq(Kinds, 1, 3) = <<"schedule", "cancel", "schedule">>
  /\ \A k \in 1..3 : nlog[k].en

\* ... and nothing has happened since
AlertArmed == PromptAnswerCompletion /\ Len(nlog) = 3

\* ... and the debounce interval has passed in silence
AlertDue == PromptAnswerCompletion /\ Len(nlog) = 4 /\ nlog[4].ev \in {"dispatch", "skipped"}

\* C31: after a prompt chunk, an observer's input and a completion chunk
\* with a total cost, the input has been written to the process, the
\* snapshot is {totalCost: 2.50} and was broadcast as a status-update to
\* the observers attached, and one alert is armed, for the completion;
\* when the debounce interval passes in silence that alert is dispatched
\* with the title and body of the completion, it is the only dispatch, and
\* no other alert is armed.
C31_PromptInputCompletion ==
  /\ [](AlertArmed =>
          /\ ptyProcess.written = <<ilog[1].data>>
          /\ Snapshot = [totalCost |-> <<"2", ".", "5", "0">>]
          /\ alog[2].result = Snapshot
          /\ \A o \in Observers :
               (sockets[o].connected /\ Len(Outputs(sockets[o].inbox)) = 2) =>
                 LET inbox == sockets[o].inbox
                 IN  /\ inbox[Len(inbox)].kind = "status-update"
                     /\ inbox[Len(inbox)].data = Snapshot
                     /\ Len(Statuses(inbox)) = 1
          /\ isPending(notifier)
          /\ Cardinality(DebounceTimers) = 1
          /\ \A t \in DebounceTimers : t.title = TITLE_FINISHED /\ t.body = BODY_FINISHED
          /\ Events("dispatch") = {})
  /\ [](AlertDue =>
          /\ nlog[4].ev = "dispatch"
          /\ nlog[4].title = TITLE_FINISHED
          /\ nlog[4].body = BODY_FINISHED
          /\ Events("dispatch") = {4}
          /\ ~isPending(notifier)
          /\ DebounceTimers = {})
  /\ (AlertArmed ~> Len(nlog) >= 4)

\* the observer that answered the prompt holds the two chunks and the
\* status-update, and the one alert has been dispatched
C31_Witness ==
  /\ AlertDue
  /\ nlog[4].ev = "dispatch"
  /\ ptyProcess.written = <<<<"y", CR>>>>
  /\ \E o \in Observers :
       /\ sockets[o].connected
       /\ ilog[1].from = o
       /\ Len(sockets[o].inbox) = 3
       /\ sockets[o].inbox[3].kind = "status-update"

(***************************************************************************)
(* Authentication.                                                         *)
(***************************************************************************)
HttpRequests == ReceivedOf("http")

CleanLen(data) == Len(Trim(stripAnsi(data)))

\* the chunk is classified as a prompt or as a completed generation
Qualifies(data) ==
  CleanLen(data) > 5 /\ (isPromptWaiting(data) \/ isGenerationComplete(data))

\* the title and body the onData handler passes for the chunk
NoticeOf(data) ==
  IF isPromptWaiting(data) THEN <<TITLE_WAITING, BODY_WAITING>>
  ELSE <<TITLE_FINISHED, BODY_FINISHED>>

\* the notifier arms timers: it is enabled and not destroyed
NotifierOn == notifier.enabled /\ ~notifier.destroyed

\* C33: a chunk of more than 5 cleaned characters that is a prompt or a
\* completed generation sets waitingForInput and calls
\* scheduleNotification once, with the title and body of its kind; with
\* the notifier on, the one timer armed afterwards is the one of this
\* call, whatever was pending before.
C33_QualifyingChunkSchedules ==
  [][\A data \in ClassifyChunks :
       (Handles(data) /\ Qualifies(data)) =>
         /\ waitingForInput'
         /\ Len(nlog') = Len(nlog) + 1
         /\ nlog'[Len(nlog')].ev = "schedule"
         /\ <<nlog'[Len(nlog')].title, nlog'[Len(nlog')].body>> = NoticeOf(data)
         /\ NotifierOn =>
              /\ isPending(notifier')
              /\ Cardinality(DebounceTimers') = 1
              /\ \A t \in DebounceTimers' :
                   /\ t.id = notifier'.pendingTimer
                   /\ <<t.title, t.body>> = NoticeOf(data)]_vars

\* a prompt was pending when a completion arrived: one timer, the
\* completion's, and the flag is set
C33_Witness ==
  /\ Len(alog) = 2
  /\ alog[1].data = LongPromptChunk
  /\ alog[2].data = CostChunk
  /\ Kinds = <<"schedule", "schedule">>
  /\ waitingForInput
  /\ Cardinality(DebounceTimers) = 1
  /\ \A t \in DebounceTimers : t.title = TITLE_FINISHED

\* C34: a chunk of more than 30 cleaned characters that is neither a
\* prompt nor a completed generation clears waitingForInput and calls
\* cancelPending: the notifier is idle, no timer is armed, and an alert
\* cancelled this way is never dispatched.
C34_SubstantialOutputClears ==
  /\ [][\A data \in ClassifyChunks :
          (Handles(data) /\ IsOtherOutput(data) /\ CleanLen(data) > 30) =>
            /\ ~waitingForInput'
            /\ nlog' = Append(nlog, Call("cancel", NULL, NULL))
            /\ ~isPending(notifier')
            /\ DebounceTimers' = {}]_vars
  /\ [](\A k \in Events("cancel") :
          \A j \in (k + 1)..Len(nlog) :
            nlog[j].ev \in {"dispatch", "skipped"} =>
              \E i \in (k + 1)..(j - 1) : nlog[i].ev = "schedule")

\* a completion's alert was pending when long other output arrived: flag
\* cleared, nothing armed, nothing dispatched
C34_Witness ==
  /\ Len(alog) = 2
  /\ alog[1].data = CostChunk
  /\ alog[2].data = LongChunk
  /\ Kinds = <<"schedule", "cancel">>
  /\ ~waitingForInput
  /\ ~isPending(notifier)
  /\ timers = {}

\* C35: a chunk of at most 5 cleaned characters is not classified, even
\* when it is a prompt: waitingForInput, the notifier and the timers are
\* as before and no Notifier call is made; the chunk is broadcast to the
\* connected observers, appended to the scrollback buffer and passed to
\* the accumulator.
C35_TinyChunkNotClassified ==
  [][\A data \in ClassifyChunks :
       (Handles(data) /\ CleanLen(data) <= 5) =>
         /\ UNCHANGED <<waitingForInput, notifier, timers, nlog>>
         /\ \A o \in Observers :
              sockets[o].connected =>
                /\ Len(sockets'[o].inbox) > Len(sockets[o].inbox)
                /\ sockets'[o].inbox[Len(sockets[o].inbox) + 1].kind = "output"
                /\ sockets'[o].inbox[Len(sockets[o].inbox) + 1].data = data
         /\ scrollbackBuffer' = scrollbackBuffer \o data
         /\ accumulator' = append(accumulator, data).acc
         /\ alog'[Len(alog')].result = append(accumulator, data).result]_vars

\* a coloured (Y/n) of 5 characters arrived first, then while a
\* completion's alert was pending: never classified, the alert stays
C35_Witness ==
  /\ Len(alog) = 3
  /\ alog[1].data = AnsiPromptChunk
  /\ alog[2].data = CostChunk
  /\ alog[3].data = AnsiPromptChunk
  /\ isPromptWaiting(AnsiPromptChunk)
  /\ CleanLen(AnsiPromptChunk) = 5
  /\ Kinds = <<"schedule">>
  /\ nlog[1].title = TITLE_FINISHED
  /\ isPending(notifier)
  /\ \E o \in Observers : Len(Outputs(sockets[o].inbox)) = 3

(***************************************************************************)
(* The waiting flag and the input handler.                                 *)
(***************************************************************************)
\* C36: whenever a notification is pending waitingForInput is true, and
\* every step that clears the flag leaves the notifier idle with no
\* debounce timer armed.
C36_PendingImpliesWaiting ==
  /\ [](isPending(notifier) => waitingForInput)
  /\ [][(waitingForInput /\ ~waitingForInput') =>
          ~isPending(notifier') /\ DebounceTimers' = {}]_vars

\* an alert was pending when an observer typed, which cleared the flag
\* and cancelled the alert; then another prompt or completion arrived:
\* pending again, flag set
C36_Witness ==
  /\ Kinds = <<"schedule", "cancel", "schedule">>
  /\ Len(ilog) = 1
  /\ ilog[1].ev = "input"
  /\ Len(alog) = 2
  /\ isPending(notifier)
  /\ waitingForInput

\* C38: when not read-only, an input from any observer clears
\* waitingForInput and calls cancelPending, leaving the notifier idle with
\* no debounce timer armed, whether or not a process can take the data; a
\* handle that was killed is written nothing, and the process spawned
\* next starts with nothing written to it.
C38_InputAlwaysCancels ==
  /\ [][\A o \in Observers :
          (~READONLY /\ Receives("input", o)) =>
            /\ ~waitingForInput'
            /\ nlog' = Append(nlog, Call("cancel", NULL, NULL))
            /\ ~isPending(notifier')
            /\ DebounceTimers' = {}
            /\ (~ptyProcess.exists \/ ptyProcess.killed) => ptyProcess' = ptyProcess]_vars
  /\ [][Respawns => ptyProcess'.written = <<>>]_vars

\* a prompt's alert was pending and the process had exited when an
\* observer typed: flag cleared, alert cancelled, and the process spawned
\* afterwards was written nothing
C38_Witness ==
  /\ ~READONLY
  /\ Kinds = <<"schedule", "exit", "cancel", "spawn">>
  /\ Len(ilog) = 1
  /\ ilog[1].ev = "input"
  /\ ilog[1].generation = 0
  /\ Generation = 1
  /\ ptyProcess.alive
  /\ ptyProcess.written = <<>>
  /\ ~waitingForInput
  /\ ~isPending(notifier)

\* C39: in read-only mode an input changes nothing of the server:
\* waitingForInput, notifier, timers, scrollback buffer, accumulator and
\* process are as before and no Notifier call is made; the sender is sent
\* the rejection notice and the other observers nothing.
C39_ReadOnlyInputNoEffect ==
  [][\A o \in Observers :
       (READONLY /\ Receives("input", o)) =>
         /\ UNCHANGED <<waitingForInput, notifier, timers, scrollbackBuffer, accumulator,
                        ptyProcess, runtime, shuttingDown, serverClosing, nlog, alog,
                        produced>>
         /\ sockets'[o].connected
         /\ sockets'[o].inbox = Append(sockets[o].inbox, Msg("output", READONLY_NOTICE))
         /\ \A p \in Observers \ {o} : sockets'[p] = sockets[p]]_vars

\* read-only, two observers attached, a prompt's alert pending, and one
\* of them typed: only the sender holds the notice, the buffer holds the
\* prompt only and the alert is still pending
C39_Witness ==
  \E o \in Observers : \E p \in Observers \ {o} :
    /\ READONLY
    /\ Len(ilog) = 1
    /\ ilog[1].from = o
    /\ sockets[o].inbox = <<Msg("output", PromptChunk), Msg("output", READONLY_NOTICE)>>
    /\ sockets[p].inbox = <<Msg("output", PromptChunk)>>
    /\ scrollbackBuffer = PromptChunk
    /\ isPending(notifier)
    /\ waitingForInput
    /\ ptyProcess.written = <<>>

(***************************************************************************)
(* Catch-up and live output together.                                      *)
(***************************************************************************)
\* C37: while the output of the current process does not exceed the
\* scrollback limit, what an attached observer holds of it, the catch-up
\* payload of its attach followed by the broadcasts since, is the
\* concatenation of all chunks the process has produced: nothing missing,
\* nothing twice, whenever the observer attached.
C37_CatchUpPlusLiveIsAll ==
  \A o \in Observers :
    (sockets[o].connected /\ Len(produced) <= SCROLLBACK_LIMIT) =>
      CurrentOutput(o) = produced

\* limit 3: one observer attached after the first chunk and was sent the
\* second live, the other attached after both and was sent them at once
C37_Witness ==
  \E o \in Observers : \E p \in Observers \ {o} :
    /\ SCROLLBACK_LIMIT = 3
    /\ produced = TinyChunk \o PairChunk
    /\ sockets[o].inbox = <<Msg("output", TinyChunk), Msg("output", PairChunk)>>
    /\ sockets[p].inbox = <<Msg("output", TinyChunk \o PairChunk)>>

(***************************************************************************)
(* The metrics an attached observer was last told.                         *)
(***************************************************************************)
\* the last status-update in the inbox of observer o
LastStatus(o) == Statuses(sockets[o].inbox)[Len(Statuses(sockets[o].inbox))]

\* observer o was told the accumulator's current snapshot last
ToldSnapshot(o) ==
  /\ Statuses(sockets[o].inbox) # <<>>
  /\ LastStatus(o).data = Snapshot

\* the step changes the snapshot to a non-null one
SnapshotChanges ==
  /\ getLastCostData(accumulator') # NULL_DATA
  /\ getLastCostData(accumulator') # Snapshot

\* the step ends, for observer o, with a status-update carrying the new
\* snapshot
BroadcastTo(o) ==
  /\ Len(sockets'[o].inbox) > Len(sockets[o].inbox)
  /\ sockets'[o].inbox[Len(sockets'[o].inbox)].kind = "status-update"
  /\ sockets'[o].inbox[Len(sockets'[o].inbox)].data = getLastCostData(accumulator')

\* C40: whenever the accumulator's snapshot is non-null, the most recent
\* status-update an attached observer received (on attach, by broadcast or
\* by request-status) is the current snapshot; and no step changes the
\* snapshot to a non-null one without sending it, in that step, to every
\* attached observer.
C40_LastStatusIsSnapshot ==
  /\ [](\A o \in Observers :
          (sockets[o].connected /\ Snapshot # NULL_DATA) => ToldSnapshot(o))
  /\ [][SnapshotChanges =>
          \A o \in Observers : sockets[o].connected => BroadcastTo(o)]_vars

\* an observer attached after the session cost was printed, was sent the
\* merged snapshot when the token count followed, and asked for it again
C40_Witness ==
  \E o \in Observers :
    /\ sockets[o].connected
    /\ Len(alog) = 2
    /\ alog[1].data = SessionChunk
    /\ alog[2].data = TokensChunk
    /\ Len(Statuses(sockets[o].inbox)) = 3
    /\ Statuses(sockets[o].inbox)[1].data = Fields(1)
    /\ Statuses(sockets[o].inbox)[2].data = Snapshot
    /\ Statuses(sockets[o].inbox)[3].data = Snapshot
    /\ Snapshot # Fields(1)
    /\ Len(ilog) = 1
    /\ ilog[1].ev = "request-status"

====
